---- MODULE Spec2Model ----
(***************************************************************************)
(* Arena-forge level editor: the snapshot undo/redo engine of LevelEditor  *)
(* (SceneSerializer + undo-manager) and the command objects of the         *)
(* command-based editor (SetPosition / SetRotation / SetScale / ...).      *)
(*                                                                         *)
(* Numbers are fixed-point integers counting 1/One, so that the factors    *)
(* 0.95 and 1.05 of the wheel scale and the half-units of a two-object     *)
(* selection centre are exact.  Angles count quarter turns, so that the    *)
(* Euler -> matrix -> Euler conversion of the serializer is computed       *)
(* exactly on matrices over {-1, 0, 1}.  A handler instance whose          *)
(* arithmetic leaves the fixed-point grid is outside the enumerated inputs.*)
(***************************************************************************)
EXTENDS Integers, Sequences, FiniteSets, TLC

VARIABLES
    \* ---- LevelEditor (src/src/LevelEditor.js) ----
    objects,            \* LevelEditor.objects: sequence of editor objects
    selectedObjects,    \* SelectionManager.selectedObjects: sequence of object refs
    selectionGroup,     \* SelectionManager.selectionGroup: position, scale, inScene
    ghosts,             \* meshes of removed objects still in the scene graph
    tcObject,           \* what the TransformControls gizmo is attached to
    currentTool,        \* LevelEditor.currentTool
    grid,               \* GridManager: gridSize, snapToGrid
    input,              \* InputManager drag state
    lastState,          \* SceneSerializer.lastState
    commands,           \* undo-manager: commands
    index,              \* undo-manager: index
    nextId,             \* number of ids generated so far by generateId
    steps,              \* number of user operations so far
    lastOp,             \* observation of the operation that ran last
    \* ---- command editor (src/src/editor/commands) ----
    edObjects,          \* every mesh the editor session created, by reference
    edScene,            \* children of Editor.scene: references, in order
    edSelected,         \* Editor.selected: a reference, 0 for null
    undos,              \* History.undos
    redos,              \* History.redos
    edSteps,            \* number of editor operations so far
    edLast,             \* observation of the editor operation that ran last
    \* ---- the call chain of setTool and the deselect listeners ----
    ctTool,             \* LevelEditor.currentTool while the chain runs
    ctCount,            \* SelectionManager.getCount()
    ctStack,            \* the JavaScript call stack: frames of fn, pc, tool
    ctOp,               \* the user operation that started the chain
    ctCalls,            \* calls made since the operation started
    \* ---- EditorEvents and AssetRegistry (src/src/editor) ----
    listeners,          \* EditorEvents.listeners: event -> callbacks, in order
    assets,             \* AssetRegistry.assets: the Map's entries, in order
    assetCmds,          \* the AddAssetCommand instances executed and not undone
    busSteps,           \* number of operations on the bus and the registry so far
    busLast             \* observation of the operation that ran last

levelVars == <<objects, selectedObjects, selectionGroup, ghosts, tcObject,
               currentTool, grid, input, lastState, commands, index,
               nextId, steps, lastOp>>
edVars    == <<edObjects, edScene, edSelected, undos, redos, edSteps, edLast>>
toolVars  == <<ctTool, ctCount, ctStack, ctOp, ctCalls>>
busVars   == <<listeners, assets, assetCmds, busSteps, busLast>>
vars      == <<objects, selectedObjects, selectionGroup, ghosts, tcObject,
               currentTool, grid, input, lastState, commands, index,
               nextId, steps, lastOp,
               edObjects, edScene, edSelected, undos, redos, edSteps, edLast,
               ctTool, ctCount, ctStack, ctOp, ctCalls,
               listeners, assets, assetCmds, busSteps, busLast>>

----------------------------------------------------------------------------
(* Bounds of the model *)

\* capacity N handed to the SceneSerializer (LevelEditor passes 50)
maxHistorySize == 2
\* user operations explored per LevelEditor session
MaxSteps == 4
\* ids generated per session by ObjectFactory.generateId
MaxIds == 2
\* operations explored per command-editor session
MaxEdSteps == 5
MaxEdObjects == 2
historyCapacity == 3
\* objects that can be selected while the tool call chain is explored
MaxSelected == 2
\* frames the call stack may hold; the chain never comes near it
MaxDepth == 10
\* callbacks subscribed to one event at a time
MaxListeners == 3
\* operations explored per session of the event bus and the asset registry
MaxBusSteps == 4

\* fixed-point unit: 1.0 = One; 0.95 = 19/20 and 1.05 = 21/20 are integers
One == 20
scaleDown == 19
scaleUp == 21
\* GridManager initial half-extent (LevelEditor.js:32), in whole units
initialGridSize == 100

Null == [kind |-> "null"]

----------------------------------------------------------------------------
(* Fixed-point helpers *)

VAdd(a, b) == <<a[1] + b[1], a[2] + b[2], a[3] + b[3]>>
VSub(a, b) == <<a[1] - b[1], a[2] - b[2], a[3] - b[3]>>
ZeroVec == <<0, 0, 0>>
OneVec == <<One, One, One>>

\* a * b in fixed point, and whether it is exact
Mul(a, b) == (a * b) \div One
MulExact(a, b) == (a * b) % One = 0
VScale(v, s) == <<Mul(v[1], s), Mul(v[2], s), Mul(v[3], s)>>
VScaleExact(v, s) == MulExact(v[1], s) /\ MulExact(v[2], s) /\ MulExact(v[3], s)

\* Math.round: nearest integer, halves towards +infinity
Round(a) == One * ((2 * a + One) \div (2 * One))
Max(a, b) == IF a >= b THEN a ELSE b
Min(a, b) == IF a <= b THEN a ELSE b

----------------------------------------------------------------------------
(* three.js Euler (order XYZ) <-> rotation matrix, angles in quarter turns *)

Cos4(a) == CASE a % 4 = 0 -> 1 [] a % 4 = 1 -> 0 [] a % 4 = 2 -> -1 [] OTHER -> 0
Sin4(a) == CASE a % 4 = 0 -> 0 [] a % 4 = 1 -> 1 [] a % 4 = 2 -> 0 [] OTHER -> -1

\* Math.atan2(y, x) on {-1,0,1}^2 \ {(0,0)}; pi and -pi are both written 2
Atan4(y, x) ==
    CASE y = 0 /\ x > 0 -> 0
      [] y > 0 /\ x = 0 -> 1
      [] y = 0 /\ x < 0 -> 2
      [] y < 0 /\ x = 0 -> -1
      [] OTHER -> 0

\* Matrix4.makeRotationFromEuler, rows m1x, m2x, m3x
EulerToMatrix(e) ==
    LET a == Cos4(e[1])  b == Sin4(e[1])
        c == Cos4(e[2])  d == Sin4(e[2])
        ee == Cos4(e[3]) f == Sin4(e[3])
    IN  [m11 |-> c * ee,           m12 |-> 0 - c * f,          m13 |-> d,
         m21 |-> a * f + b * ee * d, m22 |-> a * ee - b * f * d, m23 |-> 0 - b * c,
         m31 |-> b * f - a * ee * d, m32 |-> b * ee + a * f * d, m33 |-> a * c]

\* Euler.setFromRotationMatrix, order XYZ
MatrixToEuler(m) ==
    IF m.m13 = 0
    THEN <<Atan4(0 - m.m23, m.m33), 0, Atan4(0 - m.m12, m.m11)>>
    ELSE <<Atan4(m.m32, m.m22), m.m13, 0>>

\* matrixWorld.decompose + Euler.setFromQuaternion, as serializeObjects reads it
CanonEuler(e) == MatrixToEuler(EulerToMatrix(e))

\* product of two rotation matrices (Quaternion.multiply on the same rotations)
MatMul(p, q) ==
    [m11 |-> p.m11 * q.m11 + p.m12 * q.m21 + p.m13 * q.m31,
     m12 |-> p.m11 * q.m12 + p.m12 * q.m22 + p.m13 * q.m32,
     m13 |-> p.m11 * q.m13 + p.m12 * q.m23 + p.m13 * q.m33,
     m21 |-> p.m21 * q.m11 + p.m22 * q.m21 + p.m23 * q.m31,
     m22 |-> p.m21 * q.m12 + p.m22 * q.m22 + p.m23 * q.m32,
     m23 |-> p.m21 * q.m13 + p.m22 * q.m23 + p.m23 * q.m33,
     m31 |-> p.m31 * q.m11 + p.m32 * q.m21 + p.m33 * q.m31,
     m32 |-> p.m31 * q.m12 + p.m32 * q.m22 + p.m33 * q.m32,
     m33 |-> p.m31 * q.m13 + p.m32 * q.m23 + p.m33 * q.m33]


----------------------------------------------------------------------------
(* ObjectFactory (src/src/core/ObjectFactory.js) and MaterialsLibrary *)

\* MaterialsLibrary.has: the predefined material names
MaterialNames == {"floor", "obstacle", "wall", "emissiveCyan", "emissiveOrange",
                  "emissiveMagenta", "platform", "metalTrim"}
MaterialsHas(name) == name \in MaterialNames

\* ObjectFactory.OBJECT_TYPES, the entries without a default rotation that the
\* model draws its inputs from
OBJECT_TYPES ==
    [box      |-> [material |-> "obstacle", size |-> <<2 * One, 2 * One, 2 * One>>],
     platform |-> [material |-> "platform", size |-> <<5 * One, One \div 2, 5 * One>>]]

\* keys the registry object answers through Object.prototype: the value is
\* truthy and is not a configuration
InheritedKeys == {"constructor", "toString", "valueOf", "hasOwnProperty"}

\* create(): OBJECT_TYPES[type] || OBJECT_TYPES.box yields an inherited
\* member, and config.createGeometry() is a TypeError
createThrows(type) == type \in InheritedKeys

\* create(): the configuration used for a type key, box when the key is unknown
ConfigOf(type) ==
    IF type \in DOMAIN OBJECT_TYPES THEN OBJECT_TYPES[type] ELSE OBJECT_TYPES.box

\* a generateId() that hands out one id again and again
generateIdRepeats(n) == "obj_1"

\* generateId(): the n-th id generated in a session
GeneratedIds == <<"obj_1", "obj_2", "obj_3", "obj_4", "obj_5", "obj_6">>
generateId(n) == GeneratedIds[n]

\* create(type, position, id): the mesh is not yet in the scene graph; heap
\* names the object whose data object and whose material instance this one
\* holds, 0 for its own: data is a new literal and materials.get() returns
\* material.clone()
create(type, position, id) ==
    LET config == ConfigOf(type)
    IN  [id   |-> id,
         heap |-> [data |-> 0, material |-> 0],
         mesh |-> [position |-> position, rotation |-> ZeroVec, scale |-> OneVec,
                   material |-> config.material, parent |-> "none"],
         data |-> [type |-> type, position |-> position, rotation |-> ZeroVec,
                   scale |-> OneVec, materialType |-> config.material,
                   size |-> config.size]]

\* a clone that keeps the data object and the material of its source
cloneShared(editorObject, newPosition, id) ==
    LET newObj == create(editorObject.data.type, newPosition, id)
    IN  [newObj EXCEPT !.mesh.rotation = editorObject.mesh.rotation,
                       !.mesh.scale = editorObject.mesh.scale,
                       !.mesh.material = editorObject.mesh.material,
                       !.heap = [data |-> editorObject.ref,
                                 material |-> editorObject.ref],
                       !.data = [editorObject.data EXCEPT !.position = newPosition]]

\* clone(editorObject, newPosition) with the id generateId() hands out; the
\* data is a JSON copy and the material a new materials.get()
clone(editorObject, newPosition, id) ==
    LET newObj == create(editorObject.data.type, newPosition, id)
        mat == IF MaterialsHas(editorObject.data.materialType)
               THEN editorObject.data.materialType ELSE newObj.mesh.material
    IN  [newObj EXCEPT !.mesh.rotation = editorObject.mesh.rotation,
                       !.mesh.scale = editorObject.mesh.scale,
                       !.mesh.material = mat,
                       !.heap = [data |-> 0, material |-> 0],
                       !.data = [editorObject.data EXCEPT !.position = newPosition]]

----------------------------------------------------------------------------
(* Scene graph: a mesh is a child of the scene, of the selection group, or  *)
(* of nothing.  World transforms read the group's transform.                *)

WorldPosition(mesh, g) ==
    IF mesh.parent = "group" THEN VAdd(g.position, VScale(mesh.position, g.scale))
    ELSE mesh.position
WorldScale(mesh, g) ==
    IF mesh.parent = "group" THEN VScale(mesh.scale, g.scale) ELSE mesh.scale
WorldExact(mesh, g) ==
    mesh.parent = "group" =>
        VScaleExact(mesh.position, g.scale) /\ VScaleExact(mesh.scale, g.scale)

\* the smallest object reference not held by a live or selected object
NewRef(objs, sel) ==
    LET used == {objs[i].ref : i \in 1..Len(objs)} \cup {sel[i] : i \in 1..Len(sel)}
    IN  CHOOSE r \in 1..(Cardinality(used) + 1) :
            r \notin used /\ \A q \in 1..(r - 1) : q \in used

WithRef(obj, r) ==
    [ref |-> r, id |-> obj.id, heap |-> obj.heap, mesh |-> obj.mesh, data |-> obj.data]

IndexOfRef(objs, r) ==
    IF \E i \in 1..Len(objs) : objs[i].ref = r
    THEN CHOOSE i \in 1..Len(objs) : objs[i].ref = r
    ELSE 0

RemoveAt(seq, i) == SubSeq(seq, 1, i - 1) \o SubSeq(seq, i + 1, Len(seq))
SeqContains(seq, x) == \E i \in 1..Len(seq) : seq[i] = x
IndexOf(seq, x) ==
    IF SeqContains(seq, x) THEN CHOOSE i \in 1..Len(seq) : seq[i] = x /\ \A j \in 1..(i - 1) : seq[j] # x
    ELSE 0

----------------------------------------------------------------------------
(* SceneSerializer pure functions (src/unnamed/part_001) *)

\* serializeObjects(objects): world position, Euler of the world rotation and
\* world scale of every mesh, with a copy of its data.  alias names the editor
\* object (by reference) whose data object the entry holds: 0, the entry's
\* data is a JSON copy that nothing else holds
serializeObjects(objs, g) ==
    [objects |-> [i \in 1..Len(objs) |->
        [id       |-> objs[i].id,
         data     |-> objs[i].data,
         alias    |-> 0,
         position |-> WorldPosition(objs[i].mesh, g),
         rotation |-> CanonEuler(objs[i].mesh.rotation),
         scale    |-> WorldScale(objs[i].mesh, g)]]]

\* the texts handed to importScene: each stands for one JSON document
ImportTexts == {"{oops", "{}", "a+nodata", "ab"}

EntryA == [id |-> "a", data |-> create("box", <<0, One, 0>>, "a").data, alias |-> 0,
           position |-> <<0, One, 0>>, rotation |-> ZeroVec, scale |-> OneVec]
EntryB == [id |-> "b", data |-> create("platform", <<2 * One, 0, 0>>, "b").data, alias |-> 0,
           position |-> <<2 * One, 0, 0>>, rotation |-> <<0, 1, 0>>, scale |-> OneVec]
\* an entry without the data field
EntryNoData == [id |-> "b", alias |-> 0, position |-> <<2 * One, 0, 0>>,
                rotation |-> ZeroVec, scale |-> OneVec]

\* parseJSON(jsonString): the parsed document, null when JSON.parse throws
parseJSON(jsonString) ==
    CASE jsonString = "{}"       -> [version |-> 1]
      [] jsonString = "a+nodata" -> [objects |-> <<EntryA, EntryNoData>>]
      [] jsonString = "ab"       -> [objects |-> <<EntryA, EntryB>>]
      [] OTHER                   -> Null

Has(rec, field) == field \in DOMAIN rec

\* a snapshot entry that loadScene reads without a TypeError
EntryWellFormed(e) ==
    Has(e, "data") /\ Has(e, "position") /\ Has(e, "rotation") /\ Has(e, "scale")
WellFormed(state) ==
    /\ Has(state, "objects")
    /\ \A i \in 1..Len(state.objects) : EntryWellFormed(state.objects[i])

----------------------------------------------------------------------------
(* The mutable state of one LevelEditor session as a record, so that the    *)
(* handlers compose the methods they call.  Fields events, loads, added,    *)
(* evicted, threw and exact observe the handler that is running; busy is    *)
(* true while an undo or redo closure runs and nested counts the history    *)
(* operations begun meanwhile.                                              *)

Current ==
    [objects |-> objects, sel |-> selectedObjects, group |-> selectionGroup,
     ghosts |-> ghosts, tc |-> tcObject, tool |-> currentTool, grid |-> grid,
     input |-> input, lastState |-> lastState, commands |-> commands,
     index |-> index, nextId |-> nextId,
     events |-> <<>>, loads |-> 0, added |-> 0, evicted |-> 0,
     busy |-> FALSE, nested |-> 0,
     threw |-> FALSE, exact |-> TRUE]

----------------------------------------------------------------------------
(* undo-manager, the history library SceneSerializer drives.  index counts  *)
(* the undoable commands (the library's index + 1).                         *)

\* a limit that lets one entry too many stay
historyLimitOffByOne == maxHistorySize + 1

\* SceneSerializer constructor: undoManager.setLimit(maxHistorySize)
historyLimit == maxHistorySize

\* UndoManager.add: drop the redoable commands, push, evict from the front
UndoManagerAdd(cmds, idx, limit, cmd) ==
    LET pushed == Append(SubSeq(cmds, 1, idx), cmd)
        over == IF limit # 0 /\ Len(pushed) > limit THEN Len(pushed) - limit ELSE 0
        kept == SubSeq(pushed, over + 1, Len(pushed))
    IN  [commands |-> kept, index |-> Len(kept), evicted |-> over]

hasUndo(s) == s.index # 0
hasRedo(s) == s.index < Len(s.commands)

\* SceneSerializer.canUndo / canRedo
canUndo(s) == hasUndo(s)
canRedo(s) == hasRedo(s)

\* SceneSerializer.dispatchStateChanged
dispatchStateChanged(s) ==
    [s EXCEPT !.events = Append(@, [canUndo |-> canUndo(s), canRedo |-> canRedo(s)])]

\* SceneSerializer.deepClone(obj): JSON.parse(JSON.stringify(obj)), every
\* object of the result is new
deepClone(state) ==
    [state EXCEPT !.objects = [i \in 1..Len(state.objects) |->
                                  [state.objects[i] EXCEPT !.alias = 0]]]

\* saveState that adds its undo/redo pair whether or not lastState is null
saveStateFromUnguarded(s, g) ==
    LET ex == \A i \in 1..Len(s.objects) : WorldExact(s.objects[i].mesh, g)
        added(r) ==
            [s EXCEPT !.commands = r.commands, !.index = r.index,
                      !.added = @ + 1, !.evicted = @ + r.evicted]
        record(newState) ==
            dispatchStateChanged(
                [added(UndoManagerAdd(s.commands, s.index, historyLimit,
                                      [prev |-> s.lastState, curr |-> newState]))
                    EXCEPT !.lastState = newState, !.exact = @ /\ ex,
                           !.nested = IF s.busy THEN @ + 1 ELSE @])
    IN  record(deepClone(serializeObjects(s.objects, g)))

\* saveState that stores the entries with the live data objects in them
saveStateFromShared(s, g) ==
    LET ex == \A i \in 1..Len(s.objects) : WorldExact(s.objects[i].mesh, g)
        added(r) ==
            IF s.lastState # Null
            THEN [s EXCEPT !.commands = r.commands, !.index = r.index,
                           !.added = @ + 1, !.evicted = @ + r.evicted]
            ELSE s
        record(newState) ==
            dispatchStateChanged(
                [added(UndoManagerAdd(s.commands, s.index, historyLimit,
                                      [prev |-> s.lastState, curr |-> newState]))
                    EXCEPT !.lastState = newState, !.exact = @ /\ ex,
                           !.nested = IF s.busy THEN @ + 1 ELSE @])
        shared(state) ==
            [state EXCEPT !.objects = [i \in 1..Len(s.objects) |->
                                          [state.objects[i] EXCEPT !.alias = s.objects[i].ref]]]
    IN  record(shared(serializeObjects(s.objects, g)))

\* saveState that records nothing when the scene equals the last snapshot
saveStateFromDeduped(s, g) ==
    LET ex == \A i \in 1..Len(s.objects) : WorldExact(s.objects[i].mesh, g)
        added(r) ==
            IF s.lastState # Null
            THEN [s EXCEPT !.commands = r.commands, !.index = r.index,
                           !.added = @ + 1, !.evicted = @ + r.evicted]
            ELSE s
        record(newState) ==
            IF newState = s.lastState THEN s
            ELSE dispatchStateChanged(
                [added(UndoManagerAdd(s.commands, s.index, historyLimit,
                                      [prev |-> s.lastState, curr |-> newState]))
                    EXCEPT !.lastState = newState, !.exact = @ /\ ex,
                           !.nested = IF s.busy THEN @ + 1 ELSE @])
    IN  record(deepClone(serializeObjects(s.objects, g)))

\* SceneSerializer.saveState(objects); g is the group transform the meshes'
\* world matrices are computed from
saveStateFrom(s, g) ==
    LET ex == \A i \in 1..Len(s.objects) : WorldExact(s.objects[i].mesh, g)
        added(r) ==
            IF s.lastState # Null
            THEN [s EXCEPT !.commands = r.commands, !.index = r.index,
                           !.added = @ + 1, !.evicted = @ + r.evicted]
            ELSE s
        record(newState) ==
            dispatchStateChanged(
                [added(UndoManagerAdd(s.commands, s.index, historyLimit,
                                      [prev |-> s.lastState, curr |-> newState]))
                    EXCEPT !.lastState = newState, !.exact = @ /\ ex,
                           !.nested = IF s.busy THEN @ + 1 ELSE @])
    IN  record(deepClone(serializeObjects(s.objects, g)))

saveState(s) == saveStateFrom(s, s.group)

----------------------------------------------------------------------------
(* SelectionManager (src/unnamed/part_002) and the selection methods of     *)
(* LevelEditor                                                              *)

\* indices (in LevelEditor.objects) of the selected objects, in selection order
SelectedIndices(s) ==
    [k \in 1..Len(s.sel) |-> IndexOfRef(s.objects, s.sel[k])]

\* Object3D.attach into the scene: keep the world transform, parent = scene
SceneAttachMesh(mesh, g) ==
    [mesh EXCEPT !.position = WorldPosition(mesh, g),
                 !.scale = WorldScale(mesh, g),
                 !.parent = "scene"]

\* Object3D.remove(mesh) on the scene: only a direct child is removed
SceneRemoveMesh(mesh) ==
    IF mesh.parent = "scene" THEN [mesh EXCEPT !.parent = "none"] ELSE mesh

IsSelectedRef(s, r) == SeqContains(s.sel, r)

\* SelectionManager.updateGroupCenter: mean of the selected meshes' position
updateGroupCenter(s) ==
    LET n == Len(s.sel)
        idx == SelectedIndices(s)
        RECURSIVE Sum(_)
        Sum(k) == IF k = 0 THEN ZeroVec
                  ELSE VAdd(Sum(k - 1),
                            IF idx[k] = 0 THEN ZeroVec
                            ELSE s.objects[idx[k]].mesh.position)
        centred(total) ==
            [s EXCEPT !.group.position =
                          <<total[1] \div n, total[2] \div n, total[3] \div n>>,
                      !.exact = s.exact /\ total[1] % n = 0 /\ total[2] % n = 0
                                        /\ total[3] % n = 0]
    IN  centred(Sum(n))

\* SelectionManager.updateSelectionGroup
updateSelectionGroup(s) ==
    LET g0 == s.group
        \* re-parent all selected meshes to the scene first
        objs1 == [i \in 1..Len(s.objects) |->
                    IF IsSelectedRef(s, s.objects[i].ref) /\ s.objects[i].mesh.parent = "group"
                    THEN [s.objects[i] EXCEPT !.mesh = SceneAttachMesh(s.objects[i].mesh, g0)]
                    ELSE s.objects[i]]
        ex1 == \A i \in 1..Len(s.objects) :
                    IsSelectedRef(s, s.objects[i].ref) => WorldExact(s.objects[i].mesh, g0)
        \* the meshes move under the group, relative to its centre
        regroup(s2) ==
            [s2 EXCEPT !.group.inScene = TRUE,
                       !.objects = [i \in 1..Len(s2.objects) |->
                             IF IsSelectedRef(s2, s2.objects[i].ref)
                             THEN [s2.objects[i] EXCEPT
                                     !.mesh.position = VSub(s2.objects[i].mesh.position,
                                                            s2.group.position),
                                     !.mesh.parent = "group"]
                             ELSE s2.objects[i]],
                       !.tc = [@ EXCEPT !.kind = "group", !.ref = 0]]
        attach(s1) ==
            IF Len(s.sel) > 1
            THEN regroup(updateGroupCenter(
                          [s1 EXCEPT !.group = [position |-> ZeroVec, scale |-> One,
                                                inScene |-> FALSE]]))
            ELSE IF Len(s.sel) = 1
            THEN [s1 EXCEPT !.group.inScene = FALSE,
                            !.tc = [@ EXCEPT !.kind = "mesh", !.ref = s.sel[1]]]
            ELSE [s1 EXCEPT !.group.inScene = FALSE]
    IN  attach([s EXCEPT !.tc = [@ EXCEPT !.kind = "none", !.ref = 0],
                         !.objects = objs1, !.exact = s.exact /\ ex1])

\* SelectionManager.select
select(s, r) ==
    IF IsSelectedRef(s, r) THEN s
    ELSE updateSelectionGroup([s EXCEPT !.sel = Append(s.sel, r)])

\* SelectionManager.toggle
toggle(s, r) ==
    LET i == IndexOf(s.sel, r)
        k == IndexOfRef(s.objects, r)
    IN  IF i > 0
        THEN updateSelectionGroup(
                [s EXCEPT !.sel = RemoveAt(s.sel, i),
                          !.objects = IF k = 0 THEN @
                                      ELSE [@ EXCEPT ![k].mesh = SceneAttachMesh(@, s.group)],
                          !.exact = s.exact /\ (k # 0 => WorldExact(s.objects[k].mesh, s.group))])
        ELSE updateSelectionGroup([s EXCEPT !.sel = Append(s.sel, r)])

\* a 'deselected' listener that saves the scene
deselectedListenerSaves(s) == saveState(s)

\* the 'deselected' listener wireEvents registers: a window event and
\* populateSceneTree, nothing of the editor's state
deselectedListener(s) == s

\* SelectionManager.deselectAll, emitDeselected included
deselectAll(s) ==
    LET objs1 == [i \in 1..Len(s.objects) |->
                    IF IsSelectedRef(s, s.objects[i].ref) /\ s.objects[i].mesh.parent = "group"
                    THEN [s.objects[i] EXCEPT !.mesh = SceneAttachMesh(s.objects[i].mesh, s.group)]
                    ELSE s.objects[i]]
        ex1 == \A i \in 1..Len(s.objects) :
                    IsSelectedRef(s, s.objects[i].ref) => WorldExact(s.objects[i].mesh, s.group)
    IN  deselectedListener(
            [s EXCEPT !.objects = objs1, !.sel = <<>>,
                      !.tc = [@ EXCEPT !.kind = "none", !.ref = 0],
                      !.group.inScene = FALSE, !.exact = s.exact /\ ex1])

\* SelectionManager.selectAll
selectAll(s) ==
    LET all(s1) == [s1 EXCEPT !.sel = [i \in 1..Len(s1.objects) |-> s1.objects[i].ref]]
    IN  updateSelectionGroup(all(deselectAll(s)))

\* a remove that leaves the object in the selection
removeKeepsSelected(s, r) ==
    [s EXCEPT !.tc = IF Len(s.sel) = 0 THEN [@ EXCEPT !.kind = "none", !.ref = 0] ELSE @]

\* SelectionManager.remove: no re-parenting, the gizmo is detached only when
\* the selection becomes empty
remove(s, r) ==
    LET i == IndexOf(s.sel, r)
        sel1 == IF i > 0 THEN RemoveAt(s.sel, i) ELSE s.sel
    IN  [s EXCEPT !.sel = sel1,
                  !.tc = IF Len(sel1) = 0 THEN [@ EXCEPT !.kind = "none", !.ref = 0] ELSE @]

\* LevelEditor.deselectAllObjects (its setTool('select') finds nothing selected)
deselectAllObjects(s) ==
    LET toSelect(s1) ==
            IF s1.tool # "select"
            THEN [s1 EXCEPT !.tool = "select", !.tc = [@ EXCEPT !.kind = "none", !.ref = 0]]
            ELSE s1
    IN  toSelect(deselectAll(s))

\* LevelEditor.setTool
setTool(s, tool) ==
    LET selectTool(s1) ==
            IF tool = "select" /\ Len(s1.sel) > 0 THEN deselectAllObjects(s1) ELSE s1
    IN  selectTool(
            [s EXCEPT !.tool = tool,
                      !.tc = IF tool \in {"move-x", "move-y"} THEN [@ EXCEPT !.mode = "translate"]
                             ELSE IF tool = "rotate" THEN [@ EXCEPT !.mode = "rotate"]
                             ELSE [@ EXCEPT !.kind = "none", !.ref = 0]])

\* LevelEditor.selectObject
selectObject(s, r) ==
    LET moveTool(s1) == IF s1.tool = "select" THEN setTool(s1, "move-x") ELSE s1
    IN  moveTool(select(s, r))


----------------------------------------------------------------------------
(* SceneSerializer undo and redo through LevelEditor.loadScene *)

\* a loadScene that leaves the scale of the rebuilt mesh as create made it
restoreEntryWithoutScale(e) ==
    LET restored(made) ==
            [made EXCEPT !.mesh.rotation = e.rotation,
                         !.mesh.material = IF MaterialsHas(e.data.materialType)
                                           THEN e.data.materialType ELSE @,
                         !.mesh.parent = "scene",
                         !.data = e.data]
    IN  restored(create(e.data.type, e.position, e.id))

\* LevelEditor.loadScene, the body of state.objects.forEach: the object built
\* from one snapshot entry
restoreEntry(e) ==
    LET restored(made) ==
            [made EXCEPT !.mesh.rotation = e.rotation,
                         !.mesh.scale = e.scale,
                         !.mesh.material = IF MaterialsHas(e.data.materialType)
                                           THEN e.data.materialType ELSE @,
                         !.mesh.parent = "scene",
                         !.data = e.data]
    IN  restored(create(e.data.type, e.position, e.id))

\* LevelEditor.loadScene(state)
loadScene(s, state) ==
    LET \* objects.forEach(o => scene.remove(o.mesh)); deselectAllObjects()
        removed == [i \in 1..Len(s.objects) |->
                       [s.objects[i] EXCEPT !.mesh = SceneRemoveMesh(@)]]
        left(s1) == Cardinality({i \in 1..Len(s1.objects) : s1.objects[i].mesh.parent = "scene"})
        held(s1) == Cardinality({i \in 1..Len(s1.objects) : s1.objects[i].mesh.parent = "group"})
        \* this.objects = []
        emptied(s1) == [s1 EXCEPT !.objects = <<>>, !.ghosts.scene = @ + left(s1),
                                  !.ghosts.group = @ + held(s1)]
        RECURSIVE Build(_, _)
        Build(t, k) ==
            IF k > Len(state.objects) THEN t
            ELSE LET e == state.objects[k]
                 IN  IF ~EntryWellFormed(e) \/ createThrows(e.data.type)
                     THEN [t EXCEPT !.threw = TRUE]
                     ELSE Build([t EXCEPT !.objects =
                                   Append(@, WithRef(restoreEntry(e), NewRef(t.objects, t.sel)))],
                                k + 1)
        forEach(s2) ==
            IF ~Has(state, "objects") THEN [s2 EXCEPT !.threw = TRUE]
            ELSE Build(s2, 1)
    IN  forEach(emptied(deselectAllObjects([s EXCEPT !.objects = removed])))

\* an undo closure that loads the snapshot taken after the modification
UndoManagerUndoLoadsCurrent(s) ==
    IF s.index = 0 THEN s
    ELSE LET prevState == s.commands[s.index].curr
         IN  [dispatchStateChanged(
                    [loadScene([s EXCEPT !.busy = TRUE,
                                         !.nested = IF s.busy THEN @ + 1 ELSE @], prevState)
                        EXCEPT !.loads = @ + 1, !.lastState = prevState])
                EXCEPT !.index = @ - 1, !.busy = FALSE]

\* an undo that discards the command it has undone, so that nothing is
\* left to redo
UndoManagerUndoDiscards(s) ==
    IF s.index = 0 THEN s
    ELSE LET prevState == s.commands[s.index].prev
         IN  [dispatchStateChanged(
                    [loadScene([s EXCEPT !.busy = TRUE,
                                         !.nested = IF s.busy THEN @ + 1 ELSE @], prevState)
                        EXCEPT !.loads = @ + 1, !.lastState = prevState])
                EXCEPT !.commands = SubSeq(s.commands, 1, s.index - 1)
                                        \o SubSeq(s.commands, s.index + 1, Len(s.commands)),
                       !.index = s.index - 1, !.busy = FALSE]

\* UndoManager.undo running the undo closure saveState registered: the
\* closure runs before the library moves its index; no command, no effect
UndoManagerUndo(s) ==
    IF s.index = 0 THEN s
    ELSE LET prevState == s.commands[s.index].prev
         IN  [dispatchStateChanged(
                    [loadScene([s EXCEPT !.busy = TRUE,
                                         !.nested = IF s.busy THEN @ + 1 ELSE @], prevState)
                        EXCEPT !.loads = @ + 1, !.lastState = prevState])
                EXCEPT !.index = @ - 1, !.busy = FALSE]

\* UndoManager.redo running the redo closure saveState registered
UndoManagerRedo(s) ==
    IF s.index >= Len(s.commands) THEN s
    ELSE LET currState == s.commands[s.index + 1].curr
         IN  [dispatchStateChanged(
                    [loadScene([s EXCEPT !.busy = TRUE,
                                         !.nested = IF s.busy THEN @ + 1 ELSE @], currState)
                        EXCEPT !.loads = @ + 1, !.lastState = currState])
                EXCEPT !.index = @ + 1, !.busy = FALSE]

\* undo without the canUndo guard: the library call is a no-op on an empty
\* stack and the method returns lastState
serializerUndoUnguarded(s) ==
    LET returned(s1) == [state |-> s1, ret |-> s1.lastState]
    IN  returned(UndoManagerUndo(s))

\* parseJSON(exportToJSON(objects)): JSON.parse of the JSON.stringify of
\* serializeObjects(objects), a document of new objects
parseExported(objs, g) == deepClone(serializeObjects(objs, g))

\* an undo that reads lastState before the closure has run
serializerUndoReturnsOld(s) ==
    IF ~canUndo(s) THEN [state |-> s, ret |-> Null]
    ELSE LET returned(s1) == [state |-> s1, ret |-> s.lastState]
         IN  returned(UndoManagerUndo(s))

\* SceneSerializer.undo
serializerUndo(s) ==
    IF ~canUndo(s) THEN [state |-> s, ret |-> Null]
    ELSE LET returned(s1) == [state |-> s1, ret |-> s1.lastState]
         IN  returned(UndoManagerUndo(s))

\* SceneSerializer.redo
serializerRedo(s) ==
    IF ~canRedo(s) THEN [state |-> s, ret |-> Null]
    ELSE LET returned(s1) == [state |-> s1, ret |-> s1.lastState]
         IN  returned(UndoManagerRedo(s))

\* SceneSerializer.clearHistory: undoManager.clear(), lastState = null, and
\* a stateChanged event with both flags false
clearHistory(s) ==
    [s EXCEPT !.commands = <<>>, !.index = 0, !.lastState = Null,
              !.events = Append(@, [canUndo |-> FALSE, canRedo |-> FALSE])]

----------------------------------------------------------------------------
(* GridManager, PropertyUpdater, DragController *)

SetX(v, x) == <<x, v[2], v[3]>>
SetY(v, y) == <<v[1], y, v[3]>>
SetZ(v, z) == <<v[1], v[2], z>>

\* GridManager.snapPosition(position), includeY = false
snapPosition(p) == <<Round(p[1]), p[2], Round(p[3])>>

\* GridManager.clampToGrid(position)
clampToGrid(p, gridSize) ==
    LET half == gridSize * One
    IN  <<Max(0 - half, Min(half, p[1])), p[2], Max(0 - half, Min(half, p[3]))>>

\* GridManager.snapObject(editorObject)
snapObject(obj) ==
    LET snapped(p) == [obj EXCEPT !.mesh.position = p,
                                  !.data.position = <<p[1], @[2], p[3]>>]
    IN  snapped(snapPosition(obj.mesh.position))

\* a clamp that moves the mesh and leaves the data as it was
clampObjectMeshOnly(obj, gridSize) ==
    [obj EXCEPT !.mesh.position = clampToGrid(obj.mesh.position, gridSize)]

\* GridManager.updateSize: the clamp applied to one object
clampObject(obj, gridSize) ==
    LET clamped(q) ==
            IF q # obj.mesh.position
            THEN [obj EXCEPT !.mesh.position = q, !.data.position = <<q[1], @[2], q[3]>>]
            ELSE obj
    IN  clamped(clampToGrid(obj.mesh.position, gridSize))

\* GridManager.updateSize(newSize, objects)
updateSize(s, newSize) ==
    [s EXCEPT !.grid.gridSize = newSize,
              !.objects = [i \in 1..Len(s.objects) |-> clampObject(s.objects[i], newSize)]]

\* ObjectFactory.getYOffset(type)
getYOffset(type) ==
    CASE type = "box" -> One
      [] type = "platform" -> One \div 4
      [] OTHER -> One

\* the properties and values the properties panel hands in: lengths in
\* 1/One, angles in degrees, names as strings
NumberInputs == {<<"x", 3 * One>>, <<"rot-y", 180>>, <<"width", 4 * One>>}
StringInputs == {<<"materialType", "wall">>, <<"materialType", "glass">>,
                 <<"type", "platform">>}

\* THREE.MathUtils.degToRad, in quarter turns
degToRad(deg) == deg \div 90

\* a switch whose default case writes the value into the data record
defaultCaseAssigns(obj, property, value) ==
    IF property = "type" THEN [obj EXCEPT !.data.type = value] ELSE obj

\* PropertyUpdater.update, a property the switch has no case for: the switch
\* has no default case and nothing is written
noSuchCase(obj, property, value) == obj

\* PropertyUpdater.update(editorObject, property, value)
propertyUpdate(obj, property, value) ==
    CASE property = "materialType" ->
            IF MaterialsHas(value)
            THEN [obj EXCEPT !.mesh.material = value, !.data.materialType = value]
            ELSE obj
      [] property = "width" ->
            LET sx == (value * One) \div obj.data.size[1]
            IN  [obj EXCEPT !.mesh.scale = SetX(@, sx), !.data.scale = SetX(@, sx)]
      [] property = "height" ->
            LET sy == (value * One) \div obj.data.size[2]
            IN  [obj EXCEPT !.mesh.scale = SetY(@, sy), !.data.scale = SetY(@, sy)]
      [] property = "depth" ->
            LET sz == (value * One) \div obj.data.size[3]
            IN  [obj EXCEPT !.mesh.scale = SetZ(@, sz), !.data.scale = SetZ(@, sz)]
      [] property = "x" ->
            [obj EXCEPT !.mesh.position = SetX(@, value), !.data.position = SetX(@, value)]
      [] property = "y" ->
            [obj EXCEPT !.mesh.position = SetY(@, value), !.data.position = SetY(@, value)]
      [] property = "z" ->
            [obj EXCEPT !.mesh.position = SetZ(@, value), !.data.position = SetZ(@, value)]
      [] property = "rot-x" ->
            [obj EXCEPT !.mesh.rotation = SetX(@, degToRad(value)),
                        !.data.rotation = SetX(@, degToRad(value))]
      [] property = "rot-y" ->
            [obj EXCEPT !.mesh.rotation = SetY(@, degToRad(value)),
                        !.data.rotation = SetY(@, degToRad(value))]
      [] property = "rot-z" ->
            [obj EXCEPT !.mesh.rotation = SetZ(@, degToRad(value)),
                        !.data.rotation = SetZ(@, degToRad(value))]
      [] OTHER -> noSuchCase(obj, property, value)

propertyExact(obj, property, value) ==
    CASE property = "width"  -> (value * One) % obj.data.size[1] = 0
      [] property = "height" -> (value * One) % obj.data.size[2] = 0
      [] property = "depth"  -> (value * One) % obj.data.size[3] = 0
      [] OTHER -> TRUE

\* DragController.applyMoveDrag: the new position of one object
movedPosition(start, delta, tool, g) ==
    LET x0 == IF tool \in {"select", "move-x"} THEN start[1] + delta[1] ELSE start[1]
        z0 == IF tool \in {"select", "move-x"} THEN start[3] + delta[3] ELSE start[3]
        y0 == IF tool = "move-y" THEN start[2] + delta[2] ELSE start[2]
        x1 == IF g.snapToGrid THEN Round(x0) ELSE x0
        z1 == IF g.snapToGrid THEN Round(z0) ELSE z0
        y1 == IF g.snapToGrid /\ tool = "move-y" THEN Round(y0) ELSE y0
        half == g.gridSize * One
    IN  <<Max(0 - half, Min(half, x1)), y1, Max(0 - half, Min(half, z1))>>

\* DragController.applyMoveDrag(objects, dragData, tool); reading a start
\* position that was never recorded is a TypeError, the objects before it
\* have been moved
applyMoveDrag(s, delta, tool) ==
    LET idx == SelectedIndices(s)
        starts == s.input.dragStartPositions
        n == Min(Len(idx), Len(starts))
        moved == [i \in 1..Len(s.objects) |->
                    IF \E k \in 1..n : idx[k] = i
                    THEN LET at(p) == [s.objects[i] EXCEPT !.mesh.position = p,
                                                           !.data.position = p]
                         IN  at(movedPosition(starts[CHOOSE k \in 1..n : idx[k] = i],
                                              delta, tool, s.grid))
                    ELSE s.objects[i]]
    IN  [s EXCEPT !.objects = moved, !.threw = @ \/ Len(idx) > Len(starts)]

\* DragController.applyRotateDrag with a mouse delta of `quarters` quarter
\* turns about the Y axis and no vertical mouse movement
applyRotateDrag(s, quarters) ==
    LET idx == SelectedIndices(s)
        starts == s.input.dragStartQuaternions
        n == Min(Len(idx), Len(starts))
        rotY == EulerToMatrix(<<0, quarters, 0>>)
        turned == [i \in 1..Len(s.objects) |->
                    IF \E k \in 1..n : idx[k] = i
                    THEN LET to(e) == [s.objects[i] EXCEPT !.mesh.rotation = e,
                                                           !.data.rotation = e]
                         IN  to(MatrixToEuler(
                                    MatMul(rotY, starts[CHOOSE k \in 1..n : idx[k] = i])))
                    ELSE s.objects[i]]
    IN  [s EXCEPT !.objects = turned, !.threw = @ \/ Len(idx) > Len(starts)]

\* DragController.applyScale(objects, selectionGroup, deltaY)
applyScale(s, deltaYPositive) ==
    LET scaleAmount == IF deltaYPositive THEN scaleDown ELSE scaleUp
        idx == SelectedIndices(s)
    IN  IF Len(s.sel) > 1
        THEN [s EXCEPT !.group.scale = Mul(@, scaleAmount),
                       !.exact = @ /\ MulExact(s.group.scale, scaleAmount)]
        ELSE IF Len(s.sel) = 1 /\ idx[1] # 0
        THEN LET scaled(i, sc) ==
                     [s EXCEPT !.objects[i].mesh.scale = sc,
                               !.objects[i].data.scale = sc,
                               !.exact = @ /\ VScaleExact(s.objects[i].mesh.scale, scaleAmount)]
             IN  scaled(idx[1], VScale(s.objects[idx[1]].mesh.scale, scaleAmount))
        ELSE s

\* InputManager.startDrag: the positions and orientations of the selection
startDrag(s) ==
    LET idx == SelectedIndices(s)
    IN  [s EXCEPT !.input = [isDragging |-> TRUE,
            dragStartPositions |-> [k \in 1..Len(idx) |-> s.objects[idx[k]].mesh.position],
            dragStartQuaternions |-> [k \in 1..Len(idx) |->
                                        EulerToMatrix(s.objects[idx[k]].mesh.rotation)]]]

\* InputManager.stopDrag
stopDrag(s) ==
    [s EXCEPT !.input = [isDragging |-> FALSE, dragStartPositions |-> <<>>,
                         dragStartQuaternions |-> <<>>]]


----------------------------------------------------------------------------
(* LevelEditor operations on the session record *)

BoolRet(b) == [kind |-> "bool", value |-> b]
NoRet == [kind |-> "none"]

\* LevelEditor.addObject(type, pos)
addObject(s, type, pos) ==
    LET made == create(type, pos, generateId(s.nextId + 1))
        obj == WithRef([made EXCEPT !.mesh.parent = "scene"], NewRef(s.objects, s.sel))
    IN  IF createThrows(type) THEN [s EXCEPT !.threw = TRUE]
        ELSE saveState([s EXCEPT !.objects = Append(@, obj), !.nextId = @ + 1])

\* LevelEditor.deleteObject(obj)
deleteObject(s, r) ==
    LET idx == IndexOfRef(s.objects, r)
    IN  IF idx = 0 THEN s
        ELSE LET mesh == SceneRemoveMesh(s.objects[idx].mesh)
             IN  saveState(remove(
                    [s EXCEPT !.objects = RemoveAt(@, idx),
                              !.ghosts.group = IF mesh.parent = "group" THEN @ + 1 ELSE @],
                    r))

\* LevelEditor.deleteSelectedObjects
deleteSelectedObjects(s) ==
    LET targets == s.sel
        RECURSIVE Each(_, _)
        Each(t, k) == IF k > Len(targets) THEN t
                      ELSE Each(deleteObject(t, targets[k]), k + 1)
    IN  Each(s, 1)

\* LevelEditor.duplicateObject(obj)
duplicateObject(s, r) ==
    LET copy(src) ==
            clone(src, VAdd(src.mesh.position, <<2 * One, 0, 2 * One>>),
                  generateId(s.nextId + 1))
        made == copy(s.objects[IndexOfRef(s.objects, r)])
        dup == WithRef([made EXCEPT !.mesh.parent = "scene"], NewRef(s.objects, s.sel))
    IN  saveState([s EXCEPT !.objects = Append(@, dup), !.nextId = @ + 1])

\* LevelEditor.duplicateSelectedObjects
duplicateSelectedObjects(s) ==
    LET targets == s.sel
        first == Len(s.objects) + 1
        RECURSIVE Each(_, _)
        Each(t, k) == IF k > Len(targets) THEN t
                      ELSE Each(duplicateObject(t, targets[k]), k + 1)
        RECURSIVE Pick(_, _)
        Pick(t, i) == IF i > Len(t.objects) THEN t
                      ELSE Pick(selectObject(t, t.objects[i].ref), i + 1)
    IN  Pick(deselectAllObjects(Each(s, 1)), first)

\* LevelEditor.updateSelectedObjectProperty(prop, val)
updateSelectedObjectProperty(s, prop, val) ==
    LET updated(i) ==
            [s EXCEPT !.objects[i] = propertyUpdate(@, prop, val),
                      !.exact = @ /\ propertyExact(s.objects[i], prop, val)]
    IN  IF Len(s.sel) = 0 THEN s
        ELSE saveState(updated(SelectedIndices(s)[1]))

\* LevelEditor.updateGridSize(size)
updateGridSize(s, size) == saveState(updateSize(s, size))

\* importScene without the null check on the parsed document
importSceneUnchecked(s, json) ==
    LET saved(s1) == IF s1.threw THEN [state |-> s1, ret |-> NoRet]
                     ELSE [state |-> saveState(s1), ret |-> BoolRet(TRUE)]
    IN  saved(loadScene(s, parseJSON(json)))

\* LevelEditor.importScene(jsonString)
importScene(s, json) ==
    LET saved(s1) == IF s1.threw THEN [state |-> s1, ret |-> NoRet]
                     ELSE [state |-> saveState(s1), ret |-> BoolRet(TRUE)]
        load(parsed) ==
            IF parsed # Null THEN saved(loadScene(s, parsed))
            ELSE [state |-> s, ret |-> BoolRet(FALSE)]
    IN  load(parseJSON(json))

\* LevelEditor.clearScene(), the user confirms
clearScene(s) == saveState(loadScene(s, [objects |-> <<>>]))

\* LevelEditor.onPointerDown in the add tool; pt is the ground intersection
onPointerDownAdd(s, pt, type) ==
    LET p1 == IF s.grid.snapToGrid THEN snapPosition(pt) ELSE pt
        p2 == clampToGrid(p1, s.grid.gridSize)
        p3 == SetY(p2, getYOffset(type))
        selectNew(s1) ==
            setTool(selectObject(deselectAllObjects(s1), s1.objects[Len(s1.objects)].ref),
                    "move-x")
    IN  selectNew(addObject(s, type, p3))

\* LevelEditor.onPointerDown on the object with reference r (0: nothing hit)
onPointerDownHit(s, r, shiftKey) ==
    IF r # 0
    THEN IF shiftKey THEN toggle(s, r)
         ELSE LET drag(s1) ==
                      IF s1.tool \in {"select", "move-x", "move-y", "rotate"}
                      THEN startDrag(s1) ELSE s1
              IN  drag(IF ~IsSelectedRef(s, r)
                       THEN selectObject(deselectAllObjects(s), r) ELSE s)
    ELSE IF ~shiftKey THEN deselectAllObjects(s) ELSE s

\* LevelEditor.onDrag(detail)
onDrag(s, delta, quarters) ==
    IF Len(s.sel) = 0 THEN s
    ELSE IF s.tool \in {"select", "move-x", "move-y"}
    THEN LET centre(s1) ==
                 IF s1.threw THEN s1
                 ELSE IF Len(s1.sel) > 1 THEN updateGroupCenter(s1) ELSE s1
         IN  centre(applyMoveDrag(s, delta, s.tool))
    ELSE IF s.tool = "rotate" THEN applyRotateDrag(s, quarters)
    ELSE s

\* LevelEditor.onWheel
onWheel(s, deltaYPositive) ==
    IF Len(s.sel) = 0 THEN s ELSE saveState(applyScale(s, deltaYPositive))

\* the TransformControls gizmo changes the single mesh it is attached to, then
\* the objectChange listener of createTransformControls runs
objectChange(s, delta) ==
    LET changed(mesh) ==
            IF s.tc.mode = "translate"
            THEN [mesh EXCEPT !.position = VAdd(@, delta)]
            ELSE [mesh EXCEPT !.rotation =
                     MatrixToEuler(MatMul(EulerToMatrix(<<0, 1, 0>>), EulerToMatrix(@)))]
        moved(i) == [s EXCEPT !.objects[i].mesh = changed(@)]
        snap(s1, k) ==
            IF s1.grid.snapToGrid /\ s1.tc.mode = "translate" /\ Len(s1.sel) = 1 /\ k # 0
            THEN [s1 EXCEPT !.objects[k] = snapObject(@)] ELSE s1
        listener(s1) == snap(s1, IndexOfRef(s1.objects, s1.sel[1]))
    IN  saveState(listener(moved(IndexOfRef(s.objects, s.tc.ref))))


----------------------------------------------------------------------------
(* Inputs the LevelEditor actions draw from *)

\* addObject(type, pos): one registered type, two unknown type keys
AddInputs == {<<"box", <<0, One, 0>>>>, <<"pyramid", <<3 * One, One, One>>>>,
              <<"constructor", <<0, One, 0>>>>}
\* the ground point under the pointer in the add tool: (1.5, 0, 0.5)
AddPoints == {<<One + One \div 2, 0, One \div 2>>}
\* drag delta on the drag plane: (1.5, 0.5, 0)
DragDeltas == {<<One + One \div 2, One \div 2, 0>>}
\* gizmo translation: (0.5, 0, 0)
GizmoDeltas == {<<One \div 2, 0, 0>>}
\* half-extents typed into the map size field
GridSizes == {2, initialGridSize}
Tools == {"select", "move-x", "move-y", "rotate", "add"}

\* the live scene as the serializer would record it now
LiveScene == serializeObjects(objects, selectionGroup)

\* the ids of the selected objects
SelectedIds ==
    {objects[i].id : i \in {j \in 1..Len(objects) : SeqContains(selectedObjects, objects[j].ref)}}

\* the snapshots the serializer holds as the heap shows them once the handler
\* is done: an entry whose data is the data object of a live editor object
\* reads what that object's data is now
heldSnapshots(s) ==
    LET entry(e) ==
            IF e.alias # 0 /\ IndexOfRef(s.objects, e.alias) # 0
            THEN [e EXCEPT !.data = s.objects[IndexOfRef(s.objects, e.alias)].data]
            ELSE e
        shown(state) ==
            IF state = Null THEN state
            ELSE [state EXCEPT !.objects = [i \in 1..Len(state.objects) |->
                                               entry(state.objects[i])]]
    IN  [lastState |-> shown(s.lastState),
         commands  |-> [k \in 1..Len(s.commands) |->
                          [prev |-> shown(s.commands[k].prev),
                           curr |-> shown(s.commands[k].curr)]]]

\* the handler ran to its end (or to its exception) in session record s
Commit(s, op, arg, ret) ==
    /\ s.exact
    /\ objects' = s.objects
    /\ selectedObjects' = s.sel
    /\ selectionGroup' = s.group
    /\ ghosts' = s.ghosts
    /\ tcObject' = s.tc
    /\ currentTool' = s.tool
    /\ grid' = s.grid
    /\ input' = s.input
    /\ lastState' = heldSnapshots(s).lastState
    /\ commands' = heldSnapshots(s).commands
    /\ index' = s.index
    /\ nextId' = s.nextId
    /\ steps' = steps + 1
    /\ lastOp' = [op |-> op, arg |-> arg, ret |-> ret, threw |-> s.threw,
                  loads |-> s.loads, events |-> s.events, added |-> s.added,
                  evicted |-> s.evicted, nested |-> s.nested,
                  pre |-> LiveScene, preSel |-> SelectedIds,
                  hadUndo |-> index # 0, hadRedo |-> index < Len(commands)]
    /\ UNCHANGED <<edVars, toolVars, busVars>>

----------------------------------------------------------------------------
(* LevelEditor actions: one per user operation *)

AddObject ==
    /\ steps < MaxSteps /\ nextId < MaxIds
    /\ \E in \in AddInputs : Commit(addObject(Current, in[1], in[2]), "addObject", in[1], NoRet)

DeleteObject ==
    /\ steps < MaxSteps
    /\ \E i \in 1..Len(objects) :
          Commit(deleteObject(Current, objects[i].ref), "deleteObject", "", NoRet)

DeleteSelectedObjects ==
    /\ steps < MaxSteps /\ Len(selectedObjects) > 0
    /\ Commit(deleteSelectedObjects(Current), "deleteSelectedObjects", "", NoRet)

DuplicateSelectedObjects ==
    /\ steps < MaxSteps /\ Len(selectedObjects) > 0
    /\ nextId + Len(selectedObjects) <= MaxIds
    /\ Commit(duplicateSelectedObjects(Current),
              IF Len(selectedObjects) = 1 THEN "duplicateObject"
              ELSE "duplicateSelectedObjects", "", NoRet)

PointerDown ==
    /\ steps < MaxSteps
    /\ IF currentTool = "add"
       THEN /\ nextId < MaxIds
            /\ \E pt \in AddPoints : Commit(onPointerDownAdd(Current, pt, "box"), "addObject", "box", NoRet)
       ELSE \E i \in 0..Len(objects), shiftKey \in BOOLEAN :
               Commit(onPointerDownHit(Current, IF i = 0 THEN 0 ELSE objects[i].ref, shiftKey),
                      "pointerDown", "", NoRet)

PointerUp ==
    /\ steps < MaxSteps /\ input.isDragging
    /\ Commit(stopDrag(Current), "pointerUp", "", NoRet)

Drag ==
    /\ steps < MaxSteps /\ input.isDragging /\ Len(selectedObjects) > 0
    /\ \E delta \in DragDeltas :
          Commit(onDrag(Current, delta, 1),
                 IF currentTool = "rotate" THEN "dragRotate" ELSE "dragMove", "", NoRet)

Wheel ==
    /\ steps < MaxSteps /\ Len(selectedObjects) > 0
    /\ \E deltaYPositive \in BOOLEAN : Commit(onWheel(Current, deltaYPositive), "wheel", "", NoRet)

GizmoChange ==
    /\ steps < MaxSteps
    /\ tcObject.kind = "mesh" /\ IndexOfRef(objects, tcObject.ref) # 0
    /\ \E delta \in GizmoDeltas : Commit(objectChange(Current, delta), "gizmo", "", NoRet)

UpdateProperty ==
    /\ steps < MaxSteps /\ Len(selectedObjects) > 0
    /\ \/ \E in \in NumberInputs :
             Commit(updateSelectedObjectProperty(Current, in[1], in[2]), "property", in[1], NoRet)
       \/ \E in \in StringInputs :
             Commit(updateSelectedObjectProperty(Current, in[1], in[2]), "property", in[1], NoRet)

UpdateGridSize ==
    /\ steps < MaxSteps
    /\ \E size \in GridSizes : Commit(updateGridSize(Current, size), "gridSize", "", NoRet)

ToggleSnapToGrid ==
    /\ steps < MaxSteps
    /\ Commit([Current EXCEPT !.grid.snapToGrid = ~@], "toggleSnap", "", NoRet)

SetTool ==
    /\ steps < MaxSteps
    /\ \E tool \in Tools : Commit(setTool(Current, tool), "setTool", tool, NoRet)

SelectAllObjects ==
    /\ steps < MaxSteps
    /\ Commit(selectAll(Current), "selectAll", "", NoRet)

ImportScene ==
    /\ steps < MaxSteps
    /\ \E json \in ImportTexts :
          LET Returned(r) == Commit(r.state, "import", json, r.ret)
          IN  Returned(importScene(Current, json))

ClearScene ==
    /\ steps < MaxSteps
    /\ Commit(clearScene(Current), "clearScene", "", NoRet)

Undo ==
    /\ steps < MaxSteps
    /\ LET Returned(r) == Commit(r.state, "undo", "", r.ret)
       IN  Returned(serializerUndo(Current))

Redo ==
    /\ steps < MaxSteps
    /\ LET Returned(r) == Commit(r.state, "redo", "", r.ret)
       IN  Returned(serializerRedo(Current))

\* serializer.clearHistory() called by the host page
ClearHistory ==
    /\ steps < MaxSteps
    /\ Commit(clearHistory(Current), "clearHistory", "", NoRet)

----------------------------------------------------------------------------
(* Command editor: Editor and History as the commands use them.  An editor *)
(* session is the record e: objects (every mesh created, by reference),    *)
(* scene (references of the scene's children), selected, undos, redos,     *)
(* signals (dispatched since the operation began), threw.                  *)

EdCurrent ==
    [objects |-> edObjects, scene |-> edScene, selected |-> edSelected,
     undos |-> undos, redos |-> redos, signals |-> <<>>, threw |-> FALSE]

\* signal.dispatch(...)
dispatch(e, signal) == [e EXCEPT !.signals = Append(@, signal)]

\* a TypeError leaves the operation where it stands
TypeError(e) == [e EXCEPT !.threw = TRUE]

\* Editor.addObject(object, parent, index): index -1 or absent appends
editorAddObject(e, ref, at) ==
    LET rest == SelectSeq(e.scene, LAMBDA r : r # ref)
        k == IF at < 0 \/ at > Len(rest) THEN Len(rest) ELSE at
        placed == SubSeq(rest, 1, k) \o <<ref>> \o SubSeq(rest, k + 1, Len(rest))
    IN  dispatch([e EXCEPT !.scene = placed, !.objects[ref].parent = "scene"],
                 "objectAdded")

\* Editor.removeObject(object): an object without a parent is left alone
editorRemoveObject(e, ref) ==
    IF e.objects[ref].parent = "none" THEN e
    ELSE dispatch([e EXCEPT !.scene = SelectSeq(@, LAMBDA r : r # ref),
                            !.objects[ref].parent = "none"],
                  "objectRemoved")

\* Editor.select(object) / Editor.deselect()
editorSelect(e, ref) == [e EXCEPT !.selected = ref]
editorDeselect(e) == [e EXCEPT !.selected = 0]

\* Editor.objectById(id): the live object with this id, undefined (0) if none
objectById(e, id) ==
    LET hits == {r \in 1..Len(e.objects) : e.objects[r].id = id /\ SeqContains(e.scene, r)}
    IN  IF hits = {} THEN 0 ELSE CHOOSE r \in hits : \A q \in hits : r <= q

----------------------------------------------------------------------------
(* Commands.  A command is a record; object is a reference into e.objects, *)
(* 0 when this.object is undefined or null.  An optional constructor       *)
(* argument is <<>> when omitted and <<value>> when given.                 *)

\* new AddObjectCommand(editor, type, position) with a type string
AddObjectCommand(e, objectType, position) ==
    [type |-> "AddObjectCommand", updatable |-> FALSE, objectType |-> objectType,
     object |-> 0,
     position |-> IF position # <<>> THEN position[1] ELSE ZeroVec]

\* an execute that creates a mesh on every run
AddObjectExecuteCreatesAgain(e, cmd) ==
    LET ref == Len(e.objects) + 1
        made == create(cmd.objectType, cmd.position, generateId(ref))
        mesh == [id |-> ref, position |-> made.mesh.position,
                 rotation |-> made.mesh.rotation, scale |-> made.mesh.scale,
                 material |-> made.mesh.material,
                 parent |-> "none", userData |-> made.data]
    IN  [e |-> editorSelect(editorAddObject([e EXCEPT !.objects = Append(@, mesh)],
                                            ref, -1), ref),
         cmd |-> [cmd EXCEPT !.object = ref]]

\* AddObjectCommand.execute: the first run creates the mesh and keeps it; an
\* instance built without arguments holds undefined (-1), which is not null,
\* and hands it to Editor.addObject
AddObjectExecute(e, cmd) ==
    LET ref == Len(e.objects) + 1
        made == create(cmd.objectType, cmd.position, generateId(ref))
        mesh == [id |-> ref, position |-> made.mesh.position,
                 rotation |-> made.mesh.rotation, scale |-> made.mesh.scale,
                 material |-> made.mesh.material,
                 parent |-> "none", userData |-> made.data]
        e1 == IF cmd.object = 0 THEN [e EXCEPT !.objects = Append(@, mesh)] ELSE e
        c1 == IF cmd.object = 0 THEN [cmd EXCEPT !.object = ref] ELSE cmd
    IN  IF cmd.object < 0 THEN [e |-> TypeError(e), cmd |-> cmd]
        ELSE [e |-> editorSelect(editorAddObject(e1, c1.object, -1), c1.object),
              cmd |-> c1]

\* AddObjectCommand.undo
AddObjectUndo(e, cmd) ==
    IF cmd.object <= 0 THEN TypeError(e)
    ELSE editorDeselect(editorRemoveObject(e, cmd.object))

\* new SetPositionCommand(editor, object, newPosition, oldPosition), object
\* defined
SetPositionCommand(e, object, newPosition, oldPosition) ==
    [type |-> "SetPositionCommand", updatable |-> TRUE, object |-> object,
     newPosition |-> IF newPosition # <<>> THEN newPosition[1] ELSE ZeroVec,
     oldPosition |-> IF oldPosition # <<>> THEN oldPosition[1]
                     ELSE e.objects[object].position]

\* SetPositionCommand.execute: this.object.mesh on an undefined object is a
\* TypeError
SetPositionExecute(e, cmd) ==
    IF cmd.object = 0 THEN TypeError(e)
    ELSE dispatch([e EXCEPT !.objects[cmd.object].position = cmd.newPosition],
                  "objectChanged")

\* an undo that copies nothing back
SetPositionUndoKeeps(e, cmd) ==
    IF cmd.object = 0 THEN TypeError(e)
    ELSE dispatch(e, "objectChanged")

\* SetPositionCommand.undo
SetPositionUndo(e, cmd) ==
    IF cmd.object = 0 THEN TypeError(e)
    ELSE dispatch([e EXCEPT !.objects[cmd.object].position = cmd.oldPosition],
                  "objectChanged")

\* update(cmd) that takes both positions of the later command
SetPositionUpdateBoth(this, cmd) ==
    [this EXCEPT !.newPosition = cmd.newPosition, !.oldPosition = cmd.oldPosition]

\* SetPositionCommand.update(cmd)
SetPositionUpdate(this, cmd) == [this EXCEPT !.newPosition = cmd.newPosition]

\* SetPositionCommand.toJSON, object defined / fromJSON
SetPositionToJSON(e, cmd) ==
    [type |-> cmd.type, objectUuid |-> e.objects[cmd.object].id,
     oldPosition |-> cmd.oldPosition, newPosition |-> cmd.newPosition]
SetPositionFromJSON(e, cmd, json) ==
    [cmd EXCEPT !.object = objectById(e, json.objectUuid),
                !.oldPosition = json.oldPosition,
                !.newPosition = json.newPosition]

\* new SetRotationCommand(editor, object, newRotation, oldRotation)
SetRotationCommand(e, object, newRotation, oldRotation) ==
    [type |-> "SetRotationCommand", updatable |-> TRUE, object |-> object,
     newRotation |-> IF newRotation # <<>> THEN newRotation[1] ELSE ZeroVec,
     oldRotation |-> IF oldRotation # <<>> THEN oldRotation[1]
                     ELSE e.objects[object].rotation]

\* SetRotationCommand.execute / undo / update / toJSON / fromJSON
SetRotationExecute(e, cmd) ==
    IF cmd.object = 0 THEN TypeError(e)
    ELSE dispatch([e EXCEPT !.objects[cmd.object].rotation = cmd.newRotation],
                  "objectChanged")
SetRotationUndo(e, cmd) ==
    IF cmd.object = 0 THEN TypeError(e)
    ELSE dispatch([e EXCEPT !.objects[cmd.object].rotation = cmd.oldRotation],
                  "objectChanged")
SetRotationUpdate(this, cmd) == [this EXCEPT !.newRotation = cmd.newRotation]
SetRotationToJSON(e, cmd) ==
    [type |-> cmd.type, objectUuid |-> e.objects[cmd.object].id,
     oldRotation |-> cmd.oldRotation, newRotation |-> cmd.newRotation]
SetRotationFromJSON(e, cmd, json) ==
    [cmd EXCEPT !.object = objectById(e, json.objectUuid),
                !.oldRotation = json.oldRotation,
                !.newRotation = json.newRotation]

\* new SetScaleCommand(editor, object, newScale, oldScale)
SetScaleCommand(e, object, newScale, oldScale) ==
    [type |-> "SetScaleCommand", updatable |-> TRUE, object |-> object,
     newScale |-> IF newScale # <<>> THEN newScale[1] ELSE ZeroVec,
     oldScale |-> IF oldScale # <<>> THEN oldScale[1]
                  ELSE e.objects[object].scale]

\* SetScaleCommand.execute / undo / update / toJSON / fromJSON
SetScaleExecute(e, cmd) ==
    IF cmd.object = 0 THEN TypeError(e)
    ELSE dispatch([e EXCEPT !.objects[cmd.object].scale = cmd.newScale],
                  "objectChanged")
SetScaleUndo(e, cmd) ==
    IF cmd.object = 0 THEN TypeError(e)
    ELSE dispatch([e EXCEPT !.objects[cmd.object].scale = cmd.oldScale],
                  "objectChanged")
SetScaleUpdate(this, cmd) == [this EXCEPT !.newScale = cmd.newScale]
SetScaleToJSON(e, cmd) ==
    [type |-> cmd.type, objectUuid |-> e.objects[cmd.object].id,
     oldScale |-> cmd.oldScale, newScale |-> cmd.newScale]
SetScaleFromJSON(e, cmd, json) ==
    [cmd EXCEPT !.object = objectById(e, json.objectUuid),
                !.oldScale = json.oldScale,
                !.newScale = json.newScale]

\* Not-a-Number: what undefined / n and parseFloat(undefined) give; no
\* arithmetic of the model reaches this value
NaN == 0 - 1000000

\* new SetPropertyValueCommand(editor, object, property, newValue, oldValue);
\* a value is <<v>>, or <<>> when it is undefined
SetPropertyValueCommand(e, object, property, newValue, oldValue) ==
    [type |-> "SetPropertyValueCommand", updatable |-> TRUE, object |-> object,
     property |-> property, newValue |-> newValue, oldValue |-> oldValue]

\* PropertyUpdater.update(editorObject, property, undefined)
propertyUpdateUndefined(obj, property) ==
    LET k == CASE property \in {"x", "rot-x", "width"} -> 1
               [] property \in {"y", "rot-y", "height"} -> 2
               [] OTHER -> 3
        put(v) == [v EXCEPT ![k] = NaN]
    IN  CASE property \in {"x", "y", "z"} ->
                [obj EXCEPT !.mesh.position = put(@), !.data.position = put(@)]
          [] property \in {"rot-x", "rot-y", "rot-z"} ->
                [obj EXCEPT !.mesh.rotation = put(@), !.data.rotation = put(@)]
          [] property \in {"width", "height", "depth"} ->
                [obj EXCEPT !.mesh.scale = put(@), !.data.scale = put(@)]
          [] OTHER -> obj

\* this.editor.propertyUpdater.update(this.object, this.property, value) and
\* the objectChanged signal; the updater reads the object's mesh and data,
\* which for an object of the command editor are the mesh and its userData
SetPropertyValueApply(e, cmd, value) ==
    IF cmd.object = 0 THEN TypeError(e)
    ELSE LET view(m) == [mesh |-> [position |-> m.position, rotation |-> m.rotation,
                                   scale |-> m.scale, material |-> m.material],
                         data |-> m.userData]
             updated(obj) == IF value = <<>> THEN propertyUpdateUndefined(obj, cmd.property)
                             ELSE propertyUpdate(obj, cmd.property, value[1])
             written(out) == [e.objects[cmd.object] EXCEPT
                                 !.position = out.mesh.position,
                                 !.rotation = out.mesh.rotation,
                                 !.scale = out.mesh.scale,
                                 !.material = out.mesh.material,
                                 !.userData = out.data]
         IN  dispatch([e EXCEPT !.objects[cmd.object] =
                                    written(updated(view(e.objects[cmd.object])))],
                      "objectChanged")

\* SetPropertyValueCommand.execute / undo / update / toJSON / fromJSON
SetPropertyValueExecute(e, cmd) == SetPropertyValueApply(e, cmd, cmd.newValue)
SetPropertyValueUndo(e, cmd) == SetPropertyValueApply(e, cmd, cmd.oldValue)
SetPropertyValueUpdate(this, cmd) == [this EXCEPT !.newValue = cmd.newValue]
SetPropertyValueToJSON(e, cmd) ==
    [type |-> cmd.type, objectUuid |-> e.objects[cmd.object].id,
     property |-> cmd.property, oldValue |-> cmd.oldValue, newValue |-> cmd.newValue]
SetPropertyValueFromJSON(e, cmd, json) ==
    [cmd EXCEPT !.object = objectById(e, json.objectUuid), !.property = json.property,
                !.oldValue = json.oldValue, !.newValue = json.newValue]

\* new RemoveObjectCommand(editor, object): parent is the object's parent now
RemoveObjectCommand(e, object) ==
    [type |-> "RemoveObjectCommand", updatable |-> FALSE, object |-> object,
     parent |-> IF object # 0 THEN e.objects[object].parent ELSE "none",
     index |-> -1]

\* RemoveObjectCommand.execute: index is parent.children.indexOf(object)
RemoveObjectExecute(e, cmd) ==
    IF cmd.object # 0 /\ cmd.parent # "none"
    THEN [e |-> editorDeselect(editorRemoveObject(e, cmd.object)),
          cmd |-> [cmd EXCEPT !.index = IndexOf(e.scene, cmd.object) - 1]]
    ELSE [e |-> e, cmd |-> cmd]

\* an undo that appends the object instead of using the recorded index
RemoveObjectUndoAppends(e, cmd) ==
    IF cmd.object = 0 THEN TypeError(e)
    ELSE editorSelect(editorAddObject(e, cmd.object, -1), cmd.object)

\* RemoveObjectCommand.undo
RemoveObjectUndo(e, cmd) ==
    IF cmd.object = 0 THEN TypeError(e)
    ELSE editorSelect(editorAddObject(e, cmd.object, cmd.index), cmd.object)

\* RemoveObjectCommand.toJSON / fromJSON: the object and its parent are
\* looked up among the live objects
RemoveObjectToJSON(e, cmd) ==
    [type |-> cmd.type, objectUuid |-> e.objects[cmd.object].id,
     index |-> cmd.index, parentUuid |-> cmd.parent]
RemoveObjectFromJSON(e, cmd, json) ==
    [cmd EXCEPT !.parent = json.parentUuid, !.index = json.index,
                !.object = objectById(e, json.objectUuid)]

TransformTypes == {"SetPositionCommand", "SetRotationCommand", "SetScaleCommand"}

RECURSIVE commandExecute(_, _)
RECURSIVE commandUndo(_, _)
RECURSIVE commandToJSON(_, _)
RECURSIVE commandFromJSON(_, _, _)
RECURSIVE toJSONThrows(_)
RECURSIVE fromJSONThrows(_)

\* MoveObjectCommand.getPreviousObject: parent.children.indexOf(object.mesh)
\* is -1 for a bare mesh and the loop does not run; for a wrapper the
\* nearest previous sibling that is an editor object, null at index 0
getPreviousObject(e, object, wrapped) ==
    LET at == IndexOf(e.scene, object)
    IN  IF e.objects[object].parent = "none" \/ ~wrapped \/ at <= 1 THEN 0
        ELSE e.scene[at - 1]

\* new MoveObjectCommand(editor, object, newParent, newBefore) with a null
\* newParent; wrapped says the object is handed over as a wrapper with a
\* mesh field rather than as the mesh itself
MoveObjectCommand(e, object, wrapped, newBefore) ==
    [type |-> "MoveObjectCommand", updatable |-> FALSE, object |-> object,
     oldParent |-> e.objects[object].parent,
     oldBefore |-> getPreviousObject(e, object, wrapped),
     newParent |-> "scene", newBefore |-> newBefore]

\* the body execute and undo share: with a before object
\* parent.children.splice(indexOf(before), 0, mesh), which leaves the
\* children the mesh is already listed in alone and counts an index of -1
\* from the end; without one parent.add(mesh), which takes the mesh out of
\* its parent's children first and appends it
moveBefore(e, mesh, parent, before) ==
    IF parent = "none" THEN TypeError(e)
    ELSE IF before # 0
    THEN LET found == IndexOf(e.scene, before)
             start == IF found > 0 THEN found - 1
                      ELSE IF Len(e.scene) > 0 THEN Len(e.scene) - 1 ELSE 0
         IN  [e EXCEPT !.scene = SubSeq(@, 1, start) \o <<mesh>>
                                     \o SubSeq(@, start + 1, Len(@)),
                       !.objects[mesh].parent = "scene"]
    ELSE LET at == IndexOf(e.scene, mesh)
             rest == IF e.objects[mesh].parent = "scene" /\ at > 0
                     THEN RemoveAt(e.scene, at) ELSE e.scene
         IN  [e EXCEPT !.scene = Append(rest, mesh), !.objects[mesh].parent = "scene"]

\* MoveObjectCommand.execute
MoveObjectExecute(e, cmd) ==
    IF cmd.object = 0 THEN TypeError(e)
    ELSE LET moved(e1) == IF e1.threw THEN e1 ELSE dispatch(e1, "sceneGraphChanged")
         IN  moved(moveBefore(e, cmd.object, cmd.newParent, cmd.newBefore))

\* MoveObjectCommand.undo
MoveObjectUndo(e, cmd) ==
    IF cmd.object = 0 THEN TypeError(e)
    ELSE LET moved(e1) == IF e1.threw THEN e1 ELSE dispatch(e1, "sceneGraphChanged")
         IN  moved(moveBefore(e, cmd.object, cmd.oldParent, cmd.oldBefore))

\* new MultiCmdsCommand(editor, commands)
MultiCmdsCommand(e, cmds) ==
    [type |-> "MultiCmdsCommand", updatable |-> FALSE, object |-> 0, commands |-> cmds]

\* MultiCmdsCommand.execute: for (const cmd of this.commands) cmd.execute();
\* an exception ends the loop
MultiCmdsExecute(e, cmd) ==
    LET RECURSIVE Each(_, _, _)
        Each(t, cmds, k) ==
            IF k > Len(cmds) \/ t.threw
            THEN [e |-> t, cmd |-> [cmd EXCEPT !.commands = cmds]]
            ELSE LET ran(r) == Each(r.e, [cmds EXCEPT ![k] = r.cmd], k + 1)
                 IN  ran(commandExecute(t, cmds[k]))
    IN  Each(e, cmd.commands, 1)

\* an undo that runs the members first to last
MultiCmdsUndoInOrder(e, cmd) ==
    LET RECURSIVE Each(_, _)
        Each(t, i) == IF i > Len(cmd.commands) \/ t.threw THEN t
                      ELSE Each(commandUndo(t, cmd.commands[i]), i + 1)
    IN  Each(e, 1)

\* MultiCmdsCommand.undo: for (i = length - 1; i >= 0; i--) commands[i].undo()
MultiCmdsUndo(e, cmd) ==
    LET RECURSIVE Each(_, _)
        Each(t, i) == IF i < 1 \/ t.threw THEN t
                      ELSE Each(commandUndo(t, cmd.commands[i]), i - 1)
    IN  Each(e, Len(cmd.commands))

\* MultiCmdsCommand.toJSON
MultiCmdsToJSON(e, cmd) ==
    [type |-> cmd.type,
     commands |-> [i \in 1..Len(cmd.commands) |-> commandToJSON(e, cmd.commands[i])]]

\* MultiCmdsCommand.fromJSON: new CmdClass(this.editor) reads object.mesh of
\* an undefined object in the constructor of a transform command
MultiCmdsFromJSONThrows(json) ==
    \E i \in 1..Len(json.commands) :
        \/ json.commands[i].type \in TransformTypes
        \/ fromJSONThrows(json.commands[i])

\* new CmdClass(this.editor) of a class whose constructor takes no object
NewCmd(e, type) ==
    CASE type = "AddObjectCommand"    -> AddObjectCommand(e, Null, <<>>)
      [] type = "RemoveObjectCommand" -> RemoveObjectCommand(e, 0)
      [] type = "MultiCmdsCommand"    -> MultiCmdsCommand(e, <<>>)

\* MultiCmdsCommand.fromJSON: every type is a known command class
MultiCmdsFromJSON(e, cmd, json) ==
    [cmd EXCEPT !.commands =
        [i \in 1..Len(json.commands) |->
            commandFromJSON(e, NewCmd(e, json.commands[i].type), json.commands[i])]]

\* the method the command's class supplies: execute returns the session and
\* the command, which AddObjectCommand changes
commandExecute(e, cmd) ==
    CASE cmd.type = "AddObjectCommand"   -> AddObjectExecute(e, cmd)
      [] cmd.type = "RemoveObjectCommand" -> RemoveObjectExecute(e, cmd)
      [] cmd.type = "MultiCmdsCommand"   -> MultiCmdsExecute(e, cmd)
      [] cmd.type = "MoveObjectCommand"  -> [e |-> MoveObjectExecute(e, cmd), cmd |-> cmd]
      [] cmd.type = "SetPositionCommand" -> [e |-> SetPositionExecute(e, cmd), cmd |-> cmd]
      [] cmd.type = "SetRotationCommand" -> [e |-> SetRotationExecute(e, cmd), cmd |-> cmd]
      [] cmd.type = "SetScaleCommand"    -> [e |-> SetScaleExecute(e, cmd), cmd |-> cmd]
      [] cmd.type = "SetPropertyValueCommand" ->
            [e |-> SetPropertyValueExecute(e, cmd), cmd |-> cmd]
commandUndo(e, cmd) ==
    CASE cmd.type = "AddObjectCommand"   -> AddObjectUndo(e, cmd)
      [] cmd.type = "RemoveObjectCommand" -> RemoveObjectUndo(e, cmd)
      [] cmd.type = "MultiCmdsCommand"   -> MultiCmdsUndo(e, cmd)
      [] cmd.type = "MoveObjectCommand"  -> MoveObjectUndo(e, cmd)
      [] cmd.type = "SetPositionCommand" -> SetPositionUndo(e, cmd)
      [] cmd.type = "SetRotationCommand" -> SetRotationUndo(e, cmd)
      [] cmd.type = "SetScaleCommand"    -> SetScaleUndo(e, cmd)
      [] cmd.type = "SetPropertyValueCommand" -> SetPropertyValueUndo(e, cmd)
commandUpdate(this, cmd) ==
    CASE this.type = "SetPositionCommand" -> SetPositionUpdate(this, cmd)
      [] this.type = "SetRotationCommand" -> SetRotationUpdate(this, cmd)
      [] this.type = "SetScaleCommand"    -> SetScaleUpdate(this, cmd)
      [] this.type = "SetPropertyValueCommand" -> SetPropertyValueUpdate(this, cmd)

\* toJSON / fromJSON of the command's class; fromJSON fills a fresh instance,
\* whose object is not set by AddObjectCommand.fromJSON
commandToJSON(e, cmd) ==
    CASE cmd.type = "AddObjectCommand"   ->
            [type |-> cmd.type, objectType |-> cmd.objectType, position |-> cmd.position]
      [] cmd.type = "RemoveObjectCommand" -> RemoveObjectToJSON(e, cmd)
      [] cmd.type = "MultiCmdsCommand"   -> MultiCmdsToJSON(e, cmd)
      [] cmd.type = "MoveObjectCommand"  ->
            [type |-> cmd.type, objectUuid |-> e.objects[cmd.object].id,
             newParentUuid |-> 0,
             newBeforeUuid |-> IF cmd.newBefore # 0 THEN e.objects[cmd.newBefore].id ELSE 0,
             oldParentUuid |-> cmd.oldParent,
             oldBeforeUuid |-> IF cmd.oldBefore # 0 THEN e.objects[cmd.oldBefore].id ELSE 0]
      [] cmd.type = "SetPositionCommand" -> SetPositionToJSON(e, cmd)
      [] cmd.type = "SetRotationCommand" -> SetRotationToJSON(e, cmd)
      [] cmd.type = "SetScaleCommand"    -> SetScaleToJSON(e, cmd)
      [] cmd.type = "SetPropertyValueCommand" -> SetPropertyValueToJSON(e, cmd)
commandFromJSON(e, cmd, json) ==
    CASE cmd.type = "AddObjectCommand"   ->
            [cmd EXCEPT !.object = -1, !.objectType = json.objectType,
                        !.position = json.position]
      [] cmd.type = "RemoveObjectCommand" -> RemoveObjectFromJSON(e, cmd, json)
      [] cmd.type = "MultiCmdsCommand"   -> MultiCmdsFromJSON(e, cmd, json)
      [] cmd.type = "MoveObjectCommand"  ->
            [cmd EXCEPT !.object = objectById(e, json.objectUuid),
                        !.newParent = "scene",
                        !.newBefore = IF json.newBeforeUuid # 0
                                      THEN objectById(e, json.newBeforeUuid) ELSE 0,
                        !.oldParent = json.oldParentUuid,
                        !.oldBefore = IF json.oldBeforeUuid # 0
                                      THEN objectById(e, json.oldBeforeUuid) ELSE 0]
      [] cmd.type = "SetPositionCommand" -> SetPositionFromJSON(e, cmd, json)
      [] cmd.type = "SetRotationCommand" -> SetRotationFromJSON(e, cmd, json)
      [] cmd.type = "SetScaleCommand"    -> SetScaleFromJSON(e, cmd, json)
      [] cmd.type = "SetPropertyValueCommand" -> SetPropertyValueFromJSON(e, cmd, json)

\* toJSON reads this.object.id (this.object.uuid, this.parent.uuid): a
\* TypeError on an undefined object or a null parent
toJSONThrows(cmd) ==
    CASE cmd.type = "AddObjectCommand"    -> FALSE
      [] cmd.type = "RemoveObjectCommand" -> cmd.object = 0 \/ cmd.parent = "none"
      [] cmd.type = "MultiCmdsCommand"    ->
            \E i \in 1..Len(cmd.commands) : toJSONThrows(cmd.commands[i])
      [] OTHER -> cmd.object = 0

\* fromJSON(json) of the class json.type names throws
fromJSONThrows(json) ==
    json.type = "MultiCmdsCommand" /\ MultiCmdsFromJSONThrows(json)

----------------------------------------------------------------------------
(* History: undos and redos hold commands, the top is the last element *)

Top(stack) == stack[Len(stack)]
Pop(stack) == SubSeq(stack, 1, Len(stack) - 1)

\* push to the undo stack, evict the oldest entry over capacity, clear the
\* redo stack, notify
historyPush(e, cmd) ==
    LET pushed == Append(e.undos, cmd)
        kept == IF Len(pushed) > historyCapacity THEN Tail(pushed) ELSE pushed
    IN  dispatch([e EXCEPT !.undos = kept, !.redos = <<>>], "historyChanged")

\* History.execute(command)
historyExecute(e, cmd) ==
    LET r == commandExecute(e, cmd)
    IN  IF r.e.threw THEN r.e ELSE historyPush(r.e, r.cmd)

\* the top of the undo stack takes the command in
Mergeable(e, cmd) ==
    /\ Len(e.undos) > 0
    /\ Top(e.undos).type = cmd.type
    /\ Top(e.undos).object = cmd.object
    /\ Top(e.undos).updatable

\* History.mergeOrPush(command)
mergeOrPush(e, cmd) ==
    IF Mergeable(e, cmd)
    THEN LET merged == commandUpdate(Top(e.undos), cmd)
             r == commandExecute(e, merged)
         IN  IF r.e.threw THEN r.e
             ELSE dispatch([r.e EXCEPT !.undos = Append(Pop(e.undos), r.cmd),
                                       !.redos = <<>>], "historyChanged")
    ELSE historyExecute(e, cmd)

\* History.undo(): the command leaves the undo stack before it runs
historyUndo(e) ==
    IF Len(e.undos) = 0 THEN e
    ELSE LET cmd == Top(e.undos)
             e1 == commandUndo([e EXCEPT !.undos = Pop(@)], cmd)
         IN  IF e1.threw THEN e1
             ELSE dispatch([e1 EXCEPT !.redos = Append(@, cmd)], "historyChanged")

\* History.redo()
historyRedo(e) ==
    IF Len(e.redos) = 0 THEN e
    ELSE LET cmd == Top(e.redos)
             r == commandExecute([e EXCEPT !.redos = Pop(@)], cmd)
         IN  IF r.e.threw THEN r.e
             ELSE dispatch([r.e EXCEPT !.undos = Append(@, r.cmd)], "historyChanged")

\* the history written out and read back against the live scene
historyReload(e) ==
    LET Back(cmd) == commandFromJSON(e, cmd, commandToJSON(e, cmd))
        Throws(cmd) == toJSONThrows(cmd) \/ fromJSONThrows(commandToJSON(e, cmd))
    IN  IF \/ \E i \in 1..Len(e.undos) : Throws(e.undos[i])
           \/ \E i \in 1..Len(e.redos) : Throws(e.redos[i])
        THEN TypeError(e)
        ELSE [e EXCEPT !.undos = [i \in 1..Len(e.undos) |-> Back(e.undos[i])],
                       !.redos = [i \in 1..Len(e.redos) |-> Back(e.redos[i])]]

\* UIManager.setupPropertiesPanel, the old value the change handler reads:
\* position, rotation in degrees, width as size times scale, and for every
\* other property data[property], which no height or depth field answers
panelOldValue(m, property) ==
    CASE property = "x" -> <<m.position[1]>>
      [] property = "y" -> <<m.position[2]>>
      [] property = "z" -> <<m.position[3]>>
      [] property = "rot-x" -> <<m.rotation[1] * 90>>
      [] property = "rot-y" -> <<m.rotation[2] * 90>>
      [] property = "rot-z" -> <<m.rotation[3] * 90>>
      [] property = "width" -> <<(m.userData.size[1] * m.scale[1]) \div One>>
      [] property = "materialType" -> <<m.userData.materialType>>
      [] property = "type" -> <<m.userData.type>>
      [] OTHER -> <<>>

\* the command the change handler builds for the selected object
panelCommand(e, property, value) ==
    SetPropertyValueCommand(e, e.selected, property, <<value>>,
                            panelOldValue(e.objects[e.selected], property))

\* UIManager, the delete-object button: the selected object leaves the scene
\* without a command
deleteObjectClick(e) ==
    IF e.selected = 0 THEN e
    ELSE editorDeselect(editorRemoveObject(e, e.selected))

----------------------------------------------------------------------------
(* Command editor actions *)

NewPositions == {<<5 * One, 0, 5 * One>>, <<One, 0, 0>>, <<2 * One, 0, 0>>}
NewRotations == {<<0, 1, 0>>}
NewScales == {<<2 * One, 2 * One, 2 * One>>}

\* the operation ran in session record e; run counts the commands collapsed
\* into the top entry and start is the scene before the first of them
EdCommit(e, op, cmd, run, start) ==
    /\ edObjects' = e.objects
    /\ edScene' = e.scene
    /\ edSelected' = e.selected
    /\ undos' = e.undos
    /\ redos' = e.redos
    /\ edSteps' = edSteps + 1
    /\ edLast' = [op |-> op, cmd |-> cmd, threw |-> e.threw, signals |-> e.signals,
                  pre |-> edObjects, preSel |-> edSelected, preScene |-> edScene,
                  run |-> run, start |-> start,
                  prevRun |-> edLast.run]
    /\ UNCHANGED <<levelVars, toolVars, busVars>>

NoCmd == [type |-> "none", object |-> 0]

ExecuteAddObject ==
    /\ edSteps < MaxEdSteps /\ Len(edObjects) < MaxEdObjects
    /\ LET cmd == AddObjectCommand(EdCurrent, "box", <<ZeroVec>>)
       IN  EdCommit(historyExecute(EdCurrent, cmd), "execute", cmd, 0, edObjects)

ExecuteSetPosition ==
    /\ edSteps < MaxEdSteps /\ edSelected # 0
    /\ \E p \in NewPositions :
          LET cmd == SetPositionCommand(EdCurrent, edSelected, <<p>>, <<>>)
          IN  EdCommit(historyExecute(EdCurrent, cmd), "execute", cmd, 1, edObjects)

ExecuteSetRotation ==
    /\ edSteps < MaxEdSteps /\ edSelected # 0
    /\ \E r \in NewRotations :
          LET cmd == SetRotationCommand(EdCurrent, edSelected, <<r>>, <<>>)
          IN  EdCommit(historyExecute(EdCurrent, cmd), "execute", cmd, 1, edObjects)

ExecuteSetScale ==
    /\ edSteps < MaxEdSteps /\ edSelected # 0
    /\ \E sc \in NewScales :
          LET cmd == SetScaleCommand(EdCurrent, edSelected, <<sc>>, <<>>)
          IN  EdCommit(historyExecute(EdCurrent, cmd), "execute", cmd, 1, edObjects)

\* a live object is removed by a command
ExecuteRemoveObject ==
    /\ edSteps < MaxEdSteps
    /\ \E i \in 1..Len(edScene) :
          LET cmd == RemoveObjectCommand(EdCurrent, edScene[i])
          IN  EdCommit(historyExecute(EdCurrent, cmd), "execute", cmd, 0, edObjects)

\* a live object is moved among the children of the scene: before another
\* live object or to the end
ExecuteMoveObject ==
    /\ edSteps < MaxEdSteps
    /\ \E i \in 1..Len(edScene), wrapped \in BOOLEAN :
       \E newBefore \in {0} \cup {edScene[j] : j \in 1..Len(edScene)} :
          /\ newBefore # edScene[i]
          /\ LET cmd == MoveObjectCommand(EdCurrent, edScene[i], wrapped, newBefore)
             IN  EdCommit(historyExecute(EdCurrent, cmd), "execute", cmd, 0, edObjects)

\* two moves of the selected object as one composite: the second starts
\* where the first ends
ExecuteMultiCmds ==
    /\ edSteps < MaxEdSteps /\ edSelected # 0
    /\ \E p \in NewPositions, q \in NewPositions :
          /\ p # q
          /\ LET cmd == MultiCmdsCommand(EdCurrent,
                            <<SetPositionCommand(EdCurrent, edSelected, <<p>>, <<>>),
                              SetPositionCommand(EdCurrent, edSelected, <<q>>, <<p>>)>>)
             IN  EdCommit(historyExecute(EdCurrent, cmd), "execute", cmd, 0, edObjects)

\* one event of a continuous drag of the selected object
MergeSetPosition ==
    /\ edSteps < MaxEdSteps /\ edSelected # 0
    /\ \E p \in NewPositions :
          LET cmd == SetPositionCommand(EdCurrent, edSelected, <<p>>, <<>>)
              merges == Mergeable(EdCurrent, cmd)
          IN  EdCommit(mergeOrPush(EdCurrent, cmd), "mergeOrPush", cmd,
                       IF ~merges THEN 1
                       ELSE IF edLast.run > 0 THEN edLast.run + 1 ELSE 0,
                       IF merges /\ edLast.run > 0 THEN edLast.start ELSE edObjects)

\* the properties panel reports a change of the selected object: the handler
\* returns when the old value is the new one
PanelInputs == {<<"x", 3 * One>>, <<"rot-y", 180>>, <<"width", 4 * One>>,
                <<"height", 4 * One>>, <<"materialType", "wall">>,
                <<"type", "platform">>}
PanelChange ==
    /\ edSteps < MaxEdSteps /\ edSelected # 0
    /\ \E in \in PanelInputs :
          LET cmd == panelCommand(EdCurrent, in[1], in[2])
          IN  /\ cmd.oldValue # cmd.newValue
              /\ EdCommit(historyExecute(EdCurrent, cmd), "execute", cmd, 0, edObjects)

EdSelect ==
    /\ edSteps < MaxEdSteps
    /\ \E i \in 1..Len(edScene) :
          /\ edScene[i] # edSelected
          /\ EdCommit(editorSelect(EdCurrent, edScene[i]), "select", NoCmd,
                      edLast.run, edLast.start)

DeleteObjectClick ==
    /\ edSteps < MaxEdSteps /\ edSelected # 0
    /\ EdCommit(deleteObjectClick(EdCurrent), "delete", NoCmd, 0, edObjects)

EdUndo ==
    /\ edSteps < MaxEdSteps
    /\ EdCommit(historyUndo(EdCurrent), "undo",
                IF Len(undos) > 0 THEN Top(undos) ELSE NoCmd, 0, edObjects)

EdRedo ==
    /\ edSteps < MaxEdSteps
    /\ EdCommit(historyRedo(EdCurrent), "redo",
                IF Len(redos) > 0 THEN Top(redos) ELSE NoCmd, 0, edObjects)

HistoryReload ==
    /\ edSteps < MaxEdSteps /\ Len(undos) + Len(redos) > 0
    /\ EdCommit(historyReload(EdCurrent), "reload", NoCmd, 0, edObjects)

----------------------------------------------------------------------------
(* The call chain of setTool, deselectAllObjects, SelectionManager and the  *)
(* listeners of the host page, one call or return per step.  A frame is     *)
(* the function, the statement it is about to run, and its tool argument.   *)

TransformTools == {"move-x", "move-y", "rotate"}

Frame(fn, tool) == [fn |-> fn, pc |-> 1, tool |-> tool]

TopFrame == ctStack[Len(ctStack)]

\* the running function moves to its next statement
Advance == [ctStack EXCEPT ![Len(ctStack)].pc = @ + 1]

\* the running function moves to its next statement and calls fn(tool)
Call(fn, tool) == Append(Advance, Frame(fn, tool))

\* the running function returns
Return == SubSeq(ctStack, 1, Len(ctStack) - 1)

Running(fn, pc) == ctStack # <<>> /\ TopFrame.fn = fn /\ TopFrame.pc = pc

\* a call is made by the step
Calls(fn, tool) ==
    /\ Len(ctStack) < MaxDepth
    /\ ctStack' = Call(fn, tool)
    /\ ctCalls' = ctCalls + 1

\* no call is made by the step
Goes(stack) == ctStack' = stack /\ ctCalls' = ctCalls

\* a user operation starts the chain on an empty stack
Starts(op, fn, tool) ==
    /\ ctStack = <<>>
    /\ ctStack' = <<Frame(fn, tool)>>
    /\ ctOp' = op
    /\ ctCalls' = 1
    /\ UNCHANGED <<ctTool, ctCount, levelVars, edVars, busVars>>

\* a deselectAllObjects that leaves the tool as it is
leavesToolNever(tool) == FALSE

\* deselectAllObjects: if (this.currentTool !== 'select') this.setTool('select')
leavesTool(tool) == tool # "select"

\* the tool buttons, the keys g, v, y, r and the add panel call setTool
UserSetTool == \E tool \in Tools : Starts("setTool", "setTool", tool)

\* a click on empty ground, Escape and the scene tree call deselectAllObjects
UserDeselectAll == Starts("deselectAllObjects", "deselectAllObjects", "")

\* a click on an object that is not selected calls selectObject
UserSelectObject == ctCount < MaxSelected /\ Starts("selectObject", "selectObject", "")

\* deleteObject of a selected object calls SelectionManager.remove
UserDeleteObject == ctCount > 0 /\ Starts("deleteObject", "remove", "")

\* LevelEditor.setTool(tool)
StepSetTool ==
    /\ \/ /\ Running("setTool", 1)
          /\ ctTool' = TopFrame.tool
          /\ IF TopFrame.tool = "select" /\ ctCount > 0
             THEN Calls("deselectAllObjects", "")
             ELSE Goes(Advance)
       \/ /\ Running("setTool", 2)
          /\ Calls("toolChanged", TopFrame.tool)
          /\ UNCHANGED ctTool
       \/ /\ Running("setTool", 3)
          /\ Goes(Return)
          /\ UNCHANGED ctTool
    /\ UNCHANGED <<ctCount, ctOp, levelVars, edVars, busVars>>

\* LevelEditor.deselectAllObjects()
StepDeselectAllObjects ==
    /\ \/ /\ Running("deselectAllObjects", 1)
          /\ Calls("deselectAll", "")
       \/ /\ Running("deselectAllObjects", 2)
          /\ IF leavesTool(ctTool) THEN Calls("setTool", "select") ELSE Goes(Advance)
       \/ /\ Running("deselectAllObjects", 3)
          /\ Goes(Return)
    /\ UNCHANGED <<ctTool, ctCount, ctOp, levelVars, edVars, busVars>>

\* SelectionManager.deselectAll(): the selection is emptied, then
\* emitDeselected runs the 'deselected' listener
StepDeselectAll ==
    /\ \/ /\ Running("deselectAll", 1)
          /\ ctCount' = 0
          /\ Calls("deselected", "")
       \/ /\ Running("deselectAll", 2)
          /\ Goes(Return)
          /\ UNCHANGED ctCount
    /\ UNCHANGED <<ctTool, ctOp, levelVars, edVars, busVars>>

\* SelectionManager.remove(obj): the object leaves the selection, and
\* emitDeselected runs when nothing is left
StepRemove ==
    /\ \/ /\ Running("remove", 1)
          /\ ctCount' = ctCount - 1
          /\ IF ctCount = 1 THEN Calls("deselected", "") ELSE Goes(Advance)
       \/ /\ Running("remove", 2)
          /\ Goes(Return)
          /\ UNCHANGED ctCount
    /\ UNCHANGED <<ctTool, ctOp, levelVars, edVars, busVars>>

\* LevelEditor.selectObject(obj): SelectionManager.select, whose
\* 'selectionChanged' listeners call nothing of the editor, then setTool
StepSelectObject ==
    /\ \/ /\ Running("selectObject", 1)
          /\ ctCount' = ctCount + 1
          /\ Goes(Advance)
       \/ /\ Running("selectObject", 2)
          /\ IF ctTool = "select" THEN Calls("setTool", "move-x") ELSE Goes(Advance)
          /\ UNCHANGED ctCount
       \/ /\ Running("selectObject", 3)
          /\ Goes(Return)
          /\ UNCHANGED ctCount
    /\ UNCHANGED <<ctTool, ctOp, levelVars, edVars, busVars>>

\* the 'deselected' listener of wireEvents: window.dispatchEvent of
\* 'objectDeselected', then populateSceneTree
StepDeselected ==
    /\ \/ /\ Running("deselected", 1)
          /\ Calls("objectDeselected", "")
       \/ /\ Running("deselected", 2)
          /\ Goes(Return)
    /\ UNCHANGED <<ctTool, ctCount, ctOp, levelVars, edVars, busVars>>

\* the 'objectDeselected' listener of EditorUI: propertiesPanel.hide() and
\* toggleTransformTools(false), which calls setTool('select') from a
\* transform tool
StepObjectDeselected ==
    /\ \/ /\ Running("objectDeselected", 1)
          /\ IF ctTool \in TransformTools THEN Calls("setTool", "select") ELSE Goes(Advance)
       \/ /\ Running("objectDeselected", 2)
          /\ Goes(Return)
    /\ UNCHANGED <<ctTool, ctCount, ctOp, levelVars, edVars, busVars>>

\* the 'toolChanged' listener of EditorUI: buttons and container classes
StepToolChanged ==
    /\ Running("toolChanged", 1)
    /\ Goes(Return)
    /\ UNCHANGED <<ctTool, ctCount, ctOp, levelVars, edVars, busVars>>

\* the interpreter runs the statement on top of the stack
RunStep ==
    \/ StepSetTool
    \/ StepDeselectAllObjects
    \/ StepDeselectAll
    \/ StepRemove
    \/ StepSelectObject
    \/ StepDeselected
    \/ StepObjectDeselected
    \/ StepToolChanged

\* no chain is running: the state the other specifications keep
ToolIdle ==
    /\ ctTool = "select"
    /\ ctCount = 0
    /\ ctStack = <<>>
    /\ ctOp = "none"
    /\ ctCalls = 0

\* any tool and any number of selected objects, nothing running
ToolStart ==
    /\ ctTool \in Tools
    /\ ctCount \in 0..MaxSelected
    /\ ctStack = <<>>
    /\ ctOp = "none"
    /\ ctCalls = 0

----------------------------------------------------------------------------
(* EditorEvents, AssetRegistry, AddAssetCommand *)

\* the events AssetRegistry emits
Events == {"assetRegistered", "assetUnregistered"}

\* the callbacks of the session: "log" touches nothing of the bus, "once"
\* unsubscribes itself when it is invoked, "offLog" unsubscribes "log"
Callbacks == {"log", "once", "offLog"}

AssetIds == {"tex", "snd"}
AssetData == {"v1", "v2"}

\* EditorEvents.on(event, callback)
on(ls, event, callback) == [ls EXCEPT ![event] = Append(@, callback)]

\* EditorEvents.off(event, callback): indexOf, then splice(index, 1)
off(ls, event, callback) ==
    IF IndexOf(ls[event], callback) = 0 THEN ls
    ELSE [ls EXCEPT ![event] = RemoveAt(@, IndexOf(ls[event], callback))]

\* callback(data): what the body of the callback does to the bus
callbackRun(ls, event, callback) ==
    CASE callback = "once" -> off(ls, event, callback)
      [] callback = "offLog" -> off(ls, event, "log")
      [] OTHER -> ls

\* Array.prototype.forEach over the array of the event: the length is read
\* once, index k is visited only while the array still has it, and the
\* callbacks splice the array that is being walked
RECURSIVE forEach(_, _, _, _, _)
forEach(ls, event, k, len, invoked) ==
    IF k > len THEN [listeners |-> ls, invoked |-> invoked]
    ELSE IF k > Len(ls[event]) THEN forEach(ls, event, k + 1, len, invoked)
    ELSE forEach(callbackRun(ls, event, ls[event][k]), event, k + 1, len,
                 Append(invoked, ls[event][k]))

\* EditorEvents.emit(event, data)
emit(ls, event) == forEach(ls, event, 1, Len(ls[event]), <<>>)

\* Map.has / Map.set / Map.delete on the entries of the registry
AssetsHas(as, id) == \E i \in 1..Len(as) : as[i].id = id
AssetsIndex(as, id) == CHOOSE i \in 1..Len(as) : as[i].id = id
AssetsSet(as, id, asset) ==
    IF AssetsHas(as, id) THEN [as EXCEPT ![AssetsIndex(as, id)].asset = asset]
    ELSE Append(as, [id |-> id, asset |-> asset])
AssetsDelete(as, id) == RemoveAt(as, AssetsIndex(as, id))

\* AssetRegistry.register(id, asset)
register(as, ls, id, asset) ==
    LET emitted(r) == [assets |-> AssetsSet(as, id, asset), listeners |-> r.listeners,
                       event |-> "assetRegistered", invoked |-> r.invoked]
    IN  emitted(emit(ls, "assetRegistered"))

\* AssetRegistry.unregister(id)
unregister(as, ls, id) ==
    IF AssetsHas(as, id)
    THEN LET emitted(r) == [assets |-> AssetsDelete(as, id), listeners |-> r.listeners,
                            event |-> "assetUnregistered", invoked |-> r.invoked]
         IN  emitted(emit(ls, "assetUnregistered"))
    ELSE [assets |-> as, listeners |-> ls, event |-> "", invoked |-> <<>>]

\* new AddAssetCommand(editor, assetId, assetData)
AddAssetCommand(assetId, assetData) ==
    [type |-> "AddAssetCommand", assetId |-> assetId, assetData |-> assetData]

\* AddAssetCommand.execute
AddAssetExecute(cmd, as, ls) == register(as, ls, cmd.assetId, cmd.assetData)

\* AddAssetCommand.undo
AddAssetUndo(cmd, as, ls) == unregister(as, ls, cmd.assetId)

BusCommit(ls, as, cmds, op, event, start, invoked) ==
    /\ listeners' = ls
    /\ assets' = as
    /\ assetCmds' = cmds
    /\ busSteps' = busSteps + 1
    /\ busLast' = [op |-> op, event |-> event, start |-> start, invoked |-> invoked,
                   pre |-> assets]
    /\ UNCHANGED <<levelVars, edVars, toolVars>>

\* a component subscribes a callback
On ==
    /\ busSteps < MaxBusSteps
    /\ \E event \in Events, callback \in Callbacks :
          /\ Len(listeners[event]) < MaxListeners
          /\ BusCommit(on(listeners, event, callback), assets, assetCmds,
                       "on", event, listeners[event], <<callback>>)

\* a component unsubscribes a callback
Off ==
    /\ busSteps < MaxBusSteps
    /\ \E event \in Events, callback \in Callbacks :
          BusCommit(off(listeners, event, callback), assets, assetCmds,
                    "off", event, listeners[event], <<callback>>)

\* a component emits an event
Emit ==
    /\ busSteps < MaxBusSteps
    /\ \E event \in Events :
          LET Emitted(r) == BusCommit(r.listeners, assets, assetCmds,
                                      "emit", event, listeners[event], r.invoked)
          IN  Emitted(emit(listeners, event))

\* an AddAssetCommand is built and executed
ExecuteAddAsset ==
    /\ busSteps < MaxBusSteps
    /\ \E assetId \in AssetIds, assetData \in AssetData :
          LET Executed(r) ==
                BusCommit(r.listeners, r.assets,
                          Append(assetCmds, AddAssetCommand(assetId, assetData)),
                          "execute", r.event, listeners["assetRegistered"], r.invoked)
          IN  Executed(AddAssetExecute(AddAssetCommand(assetId, assetData), assets, listeners))

\* the command executed last is undone
UndoAddAsset ==
    /\ busSteps < MaxBusSteps
    /\ assetCmds # <<>>
    /\ LET Undone(r) ==
             BusCommit(r.listeners, r.assets, SubSeq(assetCmds, 1, Len(assetCmds) - 1),
                       "undo", r.event, listeners["assetUnregistered"], r.invoked)
       IN  Undone(AddAssetUndo(assetCmds[Len(assetCmds)], assets, listeners))

\* new EditorEvents(), new AssetRegistry(editor)
BusInit ==
    /\ listeners = [event \in Events |-> <<>>]
    /\ assets = <<>>
    /\ assetCmds = <<>>
    /\ busSteps = 0
    /\ busLast = [op |-> "init", event |-> "", start |-> <<>>, invoked |-> <<>>,
                  pre |-> <<>>]

LevelInit ==
    /\ objects = <<>>
    /\ selectedObjects = <<>>
    /\ selectionGroup = [position |-> ZeroVec, scale |-> One, inScene |-> TRUE]
    /\ ghosts = [scene |-> 0, group |-> 0]
    /\ tcObject = [kind |-> "none", ref |-> 0, mode |-> "translate"]
    /\ currentTool = "select"
    /\ grid = [gridSize |-> initialGridSize, snapToGrid |-> TRUE]
    /\ input = [isDragging |-> FALSE, dragStartPositions |-> <<>>,
                dragStartQuaternions |-> <<>>]
    /\ lastState = Null
    /\ commands = <<>>
    /\ index = 0
    /\ nextId = 0
    /\ steps = 0
    /\ lastOp = [op |-> "init", arg |-> "", ret |-> NoRet, threw |-> FALSE,
                 loads |-> 0, events |-> <<>>, added |-> 0, evicted |-> 0,
                 nested |-> 0, pre |-> [objects |-> <<>>], preSel |-> {},
                 hadUndo |-> FALSE, hadRedo |-> FALSE]

EditorInit ==
    /\ edObjects = <<>>
    /\ edScene = <<>>
    /\ edSelected = 0
    /\ undos = <<>>
    /\ redos = <<>>
    /\ edSteps = 0
    /\ edLast = [op |-> "init", cmd |-> NoCmd, threw |-> FALSE, signals |-> <<>>,
                 pre |-> <<>>, preSel |-> 0, preScene |-> <<>>, run |-> 0,
                 start |-> <<>>, prevRun |-> 0]

Init == LevelInit /\ EditorInit /\ ToolIdle /\ BusInit

Next ==
    \/ AddObject
    \/ DeleteObject
    \/ DeleteSelectedObjects
    \/ DuplicateSelectedObjects
    \/ PointerDown
    \/ PointerUp
    \/ Drag
    \/ Wheel
    \/ GizmoChange
    \/ UpdateProperty
    \/ UpdateGridSize
    \/ ToggleSnapToGrid
    \/ SetTool
    \/ SelectAllObjects
    \/ ImportScene
    \/ ClearScene
    \/ ClearHistory
    \/ Undo
    \/ Redo

Spec == Init /\ [][Next]_vars

NextCmd ==
    \/ ExecuteAddObject
    \/ ExecuteSetPosition
    \/ ExecuteSetRotation
    \/ ExecuteSetScale
    \/ ExecuteRemoveObject
    \/ ExecuteMoveObject
    \/ ExecuteMultiCmds
    \/ MergeSetPosition
    \/ PanelChange
    \/ EdSelect
    \/ DeleteObjectClick
    \/ EdUndo
    \/ EdRedo
    \/ HistoryReload

SpecCmd == Init /\ [][NextCmd]_vars

InitTool == LevelInit /\ EditorInit /\ ToolStart /\ BusInit

NextTool ==
    \/ UserSetTool
    \/ UserDeselectAll
    \/ UserSelectObject
    \/ UserDeleteObject
    \/ StepSetTool
    \/ StepDeselectAllObjects
    \/ StepDeselectAll
    \/ StepRemove
    \/ StepSelectObject
    \/ StepDeselected
    \/ StepObjectDeselected
    \/ StepToolChanged

\* a handler runs to completion without interleaving: the statement on top
\* of the stack is always run next
SpecTool == InitTool /\ [][NextTool]_vars /\ WF_vars(RunStep)

NextAssets ==
    \/ On
    \/ Off
    \/ Emit
    \/ ExecuteAddAsset
    \/ UndoAddAsset

SpecAssets == Init /\ [][NextAssets]_vars

----------------------------------------------------------------------------
(* Snapshot history of the LevelEditor: properties *)

\* the object list holds exactly the entries of snapshot S: ids, order,
\* semantic data, position, rotation and scale, every mesh a child of the scene
Rebuilt(objs, S) ==
    /\ Len(objs) = Len(S.objects)
    /\ \A i \in 1..Len(objs) :
          /\ objs[i].id = S.objects[i].id
          /\ objs[i].data = S.objects[i].data
          /\ objs[i].mesh.position = S.objects[i].position
          /\ objs[i].mesh.rotation = S.objects[i].rotation
          /\ objs[i].mesh.scale = S.objects[i].scale
          /\ objs[i].mesh.parent = "scene"

\* a handler that starts from a snapshot S and records one undo entry stores S
\* and the snapshot it took (S'); an effective undo loads S and an effective
\* redo loads S' again
UndoRedoStep ==
    /\ (lastOp'.added = 1 /\ ~lastOp'.threw /\ lastState # Null) =>
          /\ commands'[index'].prev = lastState
          /\ commands'[index'].curr = lastState'
    /\ (lastOp'.op = "undo" /\ index > 0) =>
          /\ Rebuilt(objects', commands[index].prev)
          /\ LiveScene' = commands[index].prev
          /\ lastState' = commands[index].prev
          /\ lastOp'.ret = commands[index].prev
          /\ commands' = commands /\ index' = index - 1
    /\ (lastOp'.op = "redo" /\ index < Len(commands)) =>
          /\ Rebuilt(objects', commands[index + 1].curr)
          /\ LiveScene' = commands[index + 1].curr
          /\ lastState' = commands[index + 1].curr
          /\ lastOp'.ret = commands[index + 1].curr
          /\ commands' = commands /\ index' = index + 1

\* C1: undoing a recorded modification rebuilds the object list of the
\* snapshot taken before it, and redoing it afterwards rebuilds the object
\* list of the snapshot taken after it
UndoRedoInverseLaw == [][UndoRedoStep]_vars

\* a redo has just reloaded a non-empty snapshot that an undo had left
UndoRedoInverseWitness ==
    /\ lastOp.op = "redo" /\ lastOp.loads = 1
    /\ Len(objects) > 0 /\ Rebuilt(objects, lastState)

\* the handlers that end in saveState
RecordingOps == {"addObject", "deleteObject", "deleteSelectedObjects",
                 "duplicateObject", "duplicateSelectedObjects", "wheel", "gizmo",
                 "property", "gridSize", "clearScene"}

\* the step ran saveState on top of an earlier snapshot
Recorded ==
    /\ lastState # Null /\ ~lastOp'.threw
    /\ \/ lastOp'.op \in RecordingOps
       \/ lastOp'.op = "import" /\ lastOp'.ret = BoolRet(TRUE)

\* C2: every saveState that follows an earlier snapshot records an entry and
\* leaves nothing to redo, whatever was redoable before
RedoInvalidation ==
    [][Recorded => /\ lastOp'.added >= 1
                   /\ index' = Len(commands')
                   /\ ~canRedo([commands |-> commands', index |-> index'])]_vars

\* a handler recorded an entry while a redo was pending
RedoInvalidationWitness ==
    lastOp.hadRedo /\ lastOp.added >= 1 /\ index = Len(commands) /\ index > 0

\* the step recorded one entry on a full undo stack
Overflow == lastOp'.added = 1 /\ index = maxHistorySize

\* C3: the history never holds more than maxHistorySize entries; recording on
\* a full stack drops the oldest entry without an error and leaves exactly
\* maxHistorySize undoable entries
HistoryBound ==
    /\ [](Len(commands) <= maxHistorySize /\ index <= Len(commands))
    /\ [][Overflow => /\ lastOp'.evicted = 1
                      /\ ~lastOp'.threw
                      /\ index' = maxHistorySize
                      /\ Len(commands') = maxHistorySize
                      /\ SubSeq(commands', 1, maxHistorySize - 1) = Tail(commands)
                      /\ commands'[index'].prev = lastState]_vars

\* an entry was evicted and the stack is full
HistoryBoundWitness ==
    lastOp.evicted = 1 /\ index = maxHistorySize /\ Len(commands) = maxHistorySize

\* the operations the README lists as undoable
ModifyingOps == {"addObject", "deleteObject", "duplicateObject", "dragMove",
                 "dragRotate", "wheel", "gizmo", "property", "gridSize", "import"}

\* C4: an undo issued right after an operation that changed the scene
\* restores the scene as it was before that operation
UndoAfterAnyModification ==
    [][(/\ lastOp'.op = "undo"
        /\ lastOp.op \in ModifyingOps /\ ~lastOp.threw
        /\ LiveScene # lastOp.pre)
       => LiveScene' = lastOp.pre]_vars

\* nothing observable moved in the step
SessionUnchanged ==
    /\ UNCHANGED <<objects, selectedObjects, selectionGroup, ghosts, tcObject,
                   currentTool, grid, input, lastState, commands, index, nextId>>
    /\ lastOp'.loads = 0 /\ lastOp'.events = <<>> /\ ~lastOp'.threw

\* C5: undo with nothing to undo and redo with nothing to redo return null,
\* load nothing, dispatch nothing and leave the session as it was
EmptyStackNoOp ==
    [][/\ (lastOp'.op = "undo" /\ index = 0) =>
              (lastOp'.ret = Null /\ SessionUnchanged)
       /\ (lastOp'.op = "redo" /\ index = Len(commands)) =>
              (lastOp'.ret = Null /\ SessionUnchanged)]_vars

\* undo returned null on a session that has a snapshot and live objects
EmptyStackNoOpWitness ==
    /\ lastOp.op = "undo" /\ lastOp.ret = Null /\ ~lastOp.hadUndo
    /\ lastState # Null /\ Len(objects) > 0

\* documents that parse but are not snapshots
MalformedTexts == {t \in ImportTexts : parseJSON(t) # Null /\ ~WellFormed(parseJSON(t))}

\* C6: importing a malformed snapshot is reported as a failure value and
\* leaves objects, selection and scene graph as they were
MalformedRestoreAtomic ==
    [][(lastOp'.op = "import" /\ lastOp'.arg \in MalformedTexts)
       => /\ lastOp'.ret = BoolRet(FALSE)
          /\ ~lastOp'.threw
          /\ UNCHANGED <<objects, selectedObjects, selectionGroup, ghosts>>]_vars

\* texts JSON.parse rejects
InvalidTexts == {"{oops"}

\* C7: importing a text that is not JSON returns false without an exception
\* and leaves the session as it was
InvalidJSONImport ==
    [][(lastOp'.op = "import" /\ lastOp'.arg \in InvalidTexts)
       => /\ parseJSON(lastOp'.arg) = Null
          /\ lastOp'.ret = BoolRet(FALSE)
          /\ SessionUnchanged]_vars

\* a text that is not JSON was imported over a scene with objects
InvalidJSONImportWitness ==
    /\ lastOp.op = "import" /\ lastOp.arg \in InvalidTexts
    /\ lastOp.ret = BoolRet(FALSE) /\ Len(objects) > 0

----------------------------------------------------------------------------
(* Command editor: properties *)

IsLive(ref) == ref # 0 /\ SeqContains(edScene, ref)

\* the command's target is not a live entity now
DanglingTarget(cmd) == cmd.type \in TransformTypes /\ ~IsLive(cmd.object)

\* no live entity changed in the step
LiveUntouched ==
    /\ edScene' = edScene
    /\ \A i \in 1..Len(edScene) : edObjects'[edScene[i]] = edObjects[edScene[i]]

\* C8: undo and redo of a transform command whose target is not a live
\* entity (deleted on its own, or an id that no longer resolves after the
\* history is read back) do not throw and change no live entity
DanglingTargetNoOp ==
    [][(edLast'.op \in {"undo", "redo"} /\ DanglingTarget(edLast'.cmd))
       => (~edLast'.threw /\ LiveUntouched)]_vars

LiveTarget(cmd) == cmd.type \in TransformTypes /\ IsLive(cmd.object)

NewValue(cmd) ==
    CASE cmd.type = "SetPositionCommand" -> cmd.newPosition
      [] cmd.type = "SetRotationCommand" -> cmd.newRotation
      [] cmd.type = "SetScaleCommand"    -> cmd.newScale
OldValue(cmd) ==
    CASE cmd.type = "SetPositionCommand" -> cmd.oldPosition
      [] cmd.type = "SetRotationCommand" -> cmd.oldRotation
      [] cmd.type = "SetScaleCommand"    -> cmd.oldScale
ComponentOf(mesh, cmd) ==
    CASE cmd.type = "SetPositionCommand" -> mesh.position
      [] cmd.type = "SetRotationCommand" -> mesh.rotation
      [] cmd.type = "SetScaleCommand"    -> mesh.scale

\* the step set the command's component of its target to value and nothing
\* else in any mesh
Applied(cmd, value) ==
    edObjects' =
        CASE cmd.type = "SetPositionCommand" ->
                [edObjects EXCEPT ![cmd.object].position = value]
          [] cmd.type = "SetRotationCommand" ->
                [edObjects EXCEPT ![cmd.object].rotation = value]
          [] cmd.type = "SetScaleCommand" ->
                [edObjects EXCEPT ![cmd.object].scale = value]

TransformStep ==
    /\ (edLast'.op = "execute" /\ LiveTarget(edLast'.cmd)) =>
          /\ Applied(edLast'.cmd, NewValue(edLast'.cmd))
          /\ ~edLast'.threw
          /\ OldValue(Top(undos')) = ComponentOf(edObjects[edLast'.cmd.object], edLast'.cmd)
          /\ NewValue(Top(undos')) = NewValue(edLast'.cmd)
    /\ (edLast'.op = "undo" /\ LiveTarget(edLast'.cmd)) =>
          /\ Applied(edLast'.cmd, OldValue(edLast'.cmd))
          /\ ~edLast'.threw
    /\ (edLast'.op = "redo" /\ LiveTarget(edLast'.cmd)) =>
          /\ Applied(edLast'.cmd, NewValue(edLast'.cmd))
          /\ ~edLast'.threw
    /\ (edLast'.op = "undo" /\ edLast.op = "execute" /\ LiveTarget(edLast.cmd)) =>
          edObjects' = edLast.pre
    /\ (/\ edLast'.op = "redo" /\ edLast.op = "undo" /\ LiveTarget(edLast.cmd)
        /\ ComponentOf(edLast.pre[edLast.cmd.object], edLast.cmd) = NewValue(edLast.cmd)) =>
          edObjects' = edLast.pre

\* C9: on a live target, execute of a SetPosition / SetRotation / SetScale
\* command overwrites that component alone, undo restores the value it held
\* right before execute, and redo writes the new value again
TransformInverse == [][TransformStep]_vars

\* a box created at the origin was moved to (5,0,5), moved back by undo and
\* moved again by redo
TransformInverseWitness ==
    /\ edLast.op = "redo" /\ edLast.cmd.type = "SetPositionCommand"
    /\ IsLive(edLast.cmd.object)
    /\ edLast.cmd.oldPosition = ZeroVec
    /\ edObjects[edLast.cmd.object].position = <<5 * One, 0, 5 * One>>
    /\ edLast.pre[edLast.cmd.object].position = ZeroVec

MergeStep ==
    /\ (edLast'.op = "mergeOrPush" /\ Mergeable(EdCurrent, edLast'.cmd)) =>
          /\ Len(undos') = Len(undos)
          /\ Pop(undos') = Pop(undos)
          /\ Top(undos').oldPosition = Top(undos).oldPosition
          /\ Top(undos').newPosition = edLast'.cmd.newPosition
          /\ Applied(edLast'.cmd, edLast'.cmd.newPosition)
    /\ (edLast'.op = "undo" /\ edLast.op = "mergeOrPush" /\ edLast.run >= 1) =>
          /\ edObjects' = edLast.start
          /\ Len(undos') = Len(undos) - 1

\* C10: a SetPosition command merged into the top entry leaves the entry's
\* old position and replaces its new position, so a run of consecutive
\* SetPosition commands on one target is one undo step that restores the
\* position before the run
MergeCollapsing == [][MergeStep]_vars

\* one undo took back a run of three SetPosition commands on one target
MergeCollapsingWitness ==
    /\ edLast.op = "undo" /\ edLast.prevRun = 3
    /\ edLast.cmd.type = "SetPositionCommand"
    /\ edLast.cmd.oldPosition # edLast.cmd.newPosition
    /\ edObjects[edLast.cmd.object].position = edLast.cmd.oldPosition

\* the meshes with the command's component of its target set to value
Put(objs, cmd, value) ==
    CASE cmd.type = "SetPositionCommand" -> [objs EXCEPT ![cmd.object].position = value]
      [] cmd.type = "SetRotationCommand" -> [objs EXCEPT ![cmd.object].rotation = value]
      [] cmd.type = "SetScaleCommand"    -> [objs EXCEPT ![cmd.object].scale = value]

\* the meshes after every member wrote its new value, first member first
InOrder(objs, cmds) ==
    LET RECURSIVE W(_, _)
        W(o, k) == IF k > Len(cmds) THEN o
                   ELSE W(Put(o, cmds[k], NewValue(cmds[k])), k + 1)
    IN  W(objs, 1)

\* the meshes after every member wrote its old value, last member first
InReverse(objs, cmds) ==
    LET RECURSIVE W(_, _)
        W(o, k) == IF k < 1 THEN o
                   ELSE W(Put(o, cmds[k], OldValue(cmds[k])), k - 1)
    IN  W(objs, Len(cmds))

\* a composite whose members are transform commands on live targets
LiveComposite(cmd) ==
    /\ cmd.type = "MultiCmdsCommand"
    /\ \A k \in 1..Len(cmd.commands) : LiveTarget(cmd.commands[k])

\* one objectChanged per member, then the history's notification
OncePerMember(cmd) ==
    [k \in 1..Len(cmd.commands) |-> "objectChanged"] \o <<"historyChanged">>

CompositeStep ==
    /\ (edLast'.op \in {"execute", "redo"} /\ LiveComposite(edLast'.cmd)) =>
          /\ ~edLast'.threw
          /\ edObjects' = InOrder(edObjects, edLast'.cmd.commands)
          /\ edLast'.signals = OncePerMember(edLast'.cmd)
    /\ (edLast'.op = "undo" /\ LiveComposite(edLast'.cmd)) =>
          /\ ~edLast'.threw
          /\ edObjects' = InReverse(edObjects, edLast'.cmd.commands)
          /\ edLast'.signals = OncePerMember(edLast'.cmd)

\* C11: a composite command executes its members first to last and undoes
\* them last to first, each member once per execute and once per undo
CompositeOrder == [][CompositeStep]_vars

\* a composite of two moves, the second starting where the first ends, was
\* undone: the object is back where the first move found it
CompositeOrderWitness ==
    /\ edLast.op = "undo" /\ LiveComposite(edLast.cmd)
    /\ Len(edLast.cmd.commands) = 2
    /\ edLast.cmd.commands[2].oldPosition = edLast.cmd.commands[1].newPosition
    /\ edLast.cmd.commands[1].oldPosition # edLast.cmd.commands[2].oldPosition
    /\ edObjects[edLast.cmd.commands[1].object].position = edLast.cmd.commands[1].oldPosition
    /\ edLast.pre[edLast.cmd.commands[1].object].position = edLast.cmd.commands[2].newPosition

\* C12: undo right after an operation that recorded one undo step selects
\* again exactly the objects that were selected before that operation
SelectionRestoredByUndo ==
    [][(lastOp'.op = "undo" /\ lastOp'.loads = 1 /\ lastOp.added = 1)
       => SelectedIds' = lastOp.preSel]_vars

\* the same for an AddObjectCommand or RemoveObjectCommand undone right
\* after it was executed
SelectionRestoredByCommandUndo ==
    [][(/\ edLast'.op = "undo" /\ edLast.op = "execute" /\ ~edLast.threw
        /\ edLast.cmd.type \in {"AddObjectCommand", "RemoveObjectCommand"})
       => edSelected' = edLast.preSel]_vars

\* the transform in every live object's data equals the transform of its
\* mesh, read in world space when the mesh is under the selection group
InStep ==
    \A i \in 1..Len(objects) :
        /\ objects[i].data.position = WorldPosition(objects[i].mesh, selectionGroup)
        /\ objects[i].data.rotation = objects[i].mesh.rotation
        /\ objects[i].data.scale = WorldScale(objects[i].mesh, selectionGroup)

\* C13: no LevelEditor operation makes the data transform of a live object
\* differ from its mesh transform (an imported document may hold entries
\* that differ, so import is left out)
NoDrift == [][(InStep /\ lastOp'.op # "import") => InStep']_vars

\* C14: the meshes in the scene graph, under the scene or under a selection
\* group that is in the scene, are exactly the meshes of the live objects
SceneMatchesObjects ==
    /\ ghosts.scene = 0
    /\ ghosts.group > 0 => ~selectionGroup.inScene
    /\ \A i \in 1..Len(objects) :
          \/ objects[i].mesh.parent = "scene"
          \/ objects[i].mesh.parent = "group" /\ selectionGroup.inScene

GridClampStep ==
    /\ (lastOp'.op = "gridSize" /\ LiveScene' # lastOp'.pre) => lastOp'.added = 1
    /\ (/\ lastOp'.op = "undo" /\ lastOp.op = "gridSize"
        /\ LiveScene # lastOp.pre) => LiveScene' = lastOp.pre

\* C15: an updateGridSize that clamps some object records exactly one undo
\* step, and undoing that step puts every clamped object back where it was
GridClampAtomic == [][GridClampStep]_vars

\* the clamp is one step, undone as one, when the last snapshot is the scene
\* the resize started from
GridClampAtomicInSync ==
    [][/\ (/\ lastOp'.op = "gridSize" /\ LiveScene' # lastOp'.pre
           /\ lastState = LiveScene) => lastOp'.added = 1
       /\ (/\ lastOp'.op = "undo" /\ lastOp.op = "gridSize" /\ lastOp.added = 1
           /\ LiveScene # lastOp.pre
           /\ commands[index].prev = lastOp.pre) => LiveScene' = lastOp.pre]_vars

\* the last stateChanged event of the operation reports the history as the
\* operation left it
ReportsCurrent ==
    /\ Len(lastOp'.events) > 0
    /\ lastOp'.events[Len(lastOp'.events)] =
          [canUndo |-> index' # 0, canRedo |-> index' < Len(commands')]

\* C16: every recorded saveState, undo and redo emits a stateChanged event
\* whose detail is the undo/redo availability once the operation is done
ChangeNotification ==
    [][(/\ ~lastOp'.threw
        /\ \/ lastOp'.added > 0
           \/ lastOp'.op \in {"undo", "redo"} /\ lastOp'.loads = 1) => ReportsCurrent]_vars

\* the same for the recorded saveState alone
SaveStateNotification ==
    [][(~lastOp'.threw /\ lastOp'.added > 0) => ReportsCurrent]_vars

\* no snapshot the serializer holds has the data object of an editor object
NoSharedData ==
    LET private(state) ==
            state # Null => \A i \in 1..Len(state.objects) : state.objects[i].alias = 0
    IN  /\ private(lastState)
        /\ \A k \in 1..Len(commands) : private(commands[k].prev) /\ private(commands[k].curr)

\* what a step leaves of the history is what was there: the entries it keeps
\* are unchanged, an entry it adds starts from the snapshot held before, a
\* step that neither saves nor loads keeps lastState whatever it does to the
\* live objects, and an undo or redo loads the snapshot the entry holds
SnapshotStep ==
    /\ NoSharedData'
    /\ lastOp'.op # "clearHistory" =>
          /\ lastOp'.added = 0 => commands' = commands
          /\ lastOp'.added > 0 =>
                \A j \in 1..(Len(commands') - lastOp'.added) :
                    commands'[j] = commands[j + lastOp'.evicted]
          /\ (lastOp'.added = 1 /\ lastState # Null) => commands'[index'].prev = lastState
          /\ (lastOp'.added = 0 /\ lastOp'.events = <<>>) => lastState' = lastState
    /\ (lastOp'.op = "undo" /\ lastOp'.loads = 1) =>
          lastState' = commands[index].prev /\ LiveScene' = commands[index].prev
    /\ (lastOp'.op = "redo" /\ lastOp'.loads = 1) =>
          lastState' = commands[index + 1].curr /\ LiveScene' = commands[index + 1].curr

\* C17: a snapshot held in the history or in lastState is not changed by a
\* later mutation of the live objects, and objects rebuilt from it share no
\* data with it: an undo or redo of an entry loads what the entry recorded
SnapshotsNotAliased == [][SnapshotStep]_vars

\* a drag has moved a live object, data included, after the snapshot in
\* lastState was taken of it, and the snapshot still holds the old data
SnapshotsNotAliasedWitness ==
    /\ lastOp.op = "dragMove" /\ ~lastOp.threw
    /\ lastState # Null /\ Len(lastState.objects) = Len(objects)
    /\ \E i \in 1..Len(objects) :
          /\ lastState.objects[i].id = objects[i].id
          /\ lastState.objects[i].data # objects[i].data

\* C18: no saveState, undo or redo begins while an undo or redo closure is
\* running its loadScene and the events loadScene raises
SequentialHistory == lastOp.nested = 0

\* an undo or redo closure has loaded a snapshot over a selection, so that
\* its loadScene raised 'deselected' with objects selected
SequentialHistoryWitness ==
    /\ lastOp.op \in {"undo", "redo"} /\ lastOp.loads = 1 /\ ~lastOp.threw
    /\ lastOp.preSel # {}

SingleSaveOps ==
    {"addObject", "deleteObject", "gridSize", "clearScene", "wheel", "property", "gizmo"}

\* the saveState of the handler took the snapshot of the live scene and, when
\* lastState was a snapshot, pushed the one pair (lastState, snapshot); when
\* lastState was null it left the history as it was
SaveStateStep ==
    (lastOp'.op \in SingleSaveOps /\ ~lastOp'.threw) =>
        /\ lastState' = LiveScene'
        /\ IF lastState # Null
           THEN /\ lastOp'.added = 1
                /\ index' = Len(commands')
                /\ commands'[index'] = [prev |-> lastState, curr |-> lastState']
           ELSE /\ lastOp'.added = 0
                /\ commands' = commands /\ index' = index

\* C20: saveState records exactly one undo/redo pair when lastState is not
\* null and none when it is, as in the first saveState of a session and the
\* first after clearHistory
SaveStateRecordsOnce == [][SaveStateStep]_vars

\* clearHistory has emptied a history that held entries, over a scene that
\* holds objects, and the saveState that comes first records no entry
SaveStateRecordsOnceWitness ==
    /\ lastOp.op = "clearHistory" /\ lastOp.hadUndo
    /\ Len(objects) > 0 /\ lastState = Null
    /\ LET first(r) == r.added = 0 /\ r.commands = <<>> /\ r.lastState = LiveScene
       IN  first(saveState(Current))

\* the same for the meshes of the command editor and their userData
NoCommandDrift ==
    \A i \in 1..Len(edScene) :
        /\ edObjects[edScene[i]].userData.position = edObjects[edScene[i]].position
        /\ edObjects[edScene[i]].userData.rotation = edObjects[edScene[i]].rotation
        /\ edObjects[edScene[i]].userData.scale = edObjects[edScene[i]].scale

----------------------------------------------------------------------------
(* Commands on the scene graph: properties *)

\* how often the mesh is listed among the children of the scene
Listed(scene, mesh) == Cardinality({i \in 1..Len(scene) : scene[i] = mesh})

\* C21: after MoveObjectCommand.execute() the moved object is listed exactly
\* once, under the new parent immediately before newBefore, or last when
\* newBefore is null
MoveForwardEffect ==
    (edLast.op = "execute" /\ edLast.cmd.type = "MoveObjectCommand" /\ ~edLast.threw) =>
        LET mesh == edLast.cmd.object
            at == IndexOf(edScene, mesh)
        IN  /\ Listed(edScene, mesh) = 1
            /\ edObjects[mesh].parent = "scene"
            /\ IF edLast.cmd.newBefore = 0 THEN at = Len(edScene)
               ELSE at < Len(edScene) /\ edScene[at + 1] = edLast.cmd.newBefore

\* C22: MoveObjectCommand.execute() followed by undo() leaves the children
\* of the scene in the order they had before execute
MoveInverseStep ==
    (/\ edLast.op = "execute" /\ edLast.cmd.type = "MoveObjectCommand" /\ ~edLast.threw
     /\ edLast'.op = "undo" /\ ~edLast'.threw) =>
        edScene' = edLast.preScene
MoveInverse == [][MoveInverseStep]_vars

\* the step is the run of a RemoveObjectCommand on an object the scene
\* lists once, or the undo that follows its execute
RemoveStep ==
    /\ (/\ edLast'.op \in {"execute", "redo"} /\ ~edLast'.threw
        /\ edLast'.cmd.type = "RemoveObjectCommand"
        /\ Listed(edScene, edLast'.cmd.object) = 1) =>
            /\ edScene' = SelectSeq(edScene, LAMBDA r : r # edLast'.cmd.object)
            /\ edObjects'[edLast'.cmd.object].parent = "none"
            /\ edSelected' = 0
    /\ (/\ edLast.op = "execute" /\ ~edLast.threw
        /\ edLast.cmd.type = "RemoveObjectCommand"
        /\ Listed(edLast.preScene, edLast.cmd.object) = 1
        /\ edLast'.op = "undo" /\ ~edLast'.threw) =>
            /\ edScene' = edLast.preScene
            /\ edObjects' = edLast.pre
            /\ edSelected' = edLast.cmd.object

\* C23: RemoveObjectCommand.execute() removes the object and clears the
\* selection; undo() puts the same object back under its parent at its
\* sibling index and selects it, so the sibling order is the one before
\* execute
RemoveInverse == [][RemoveStep]_vars

\* the undo of a RemoveObjectCommand has put back an object that was not the
\* last child
RemoveInverseWitness ==
    /\ edLast.op = "undo" /\ ~edLast.threw
    /\ edLast.cmd.type = "RemoveObjectCommand"
    /\ Len(edScene) > 1
    /\ edScene[1] = edLast.cmd.object
    /\ edSelected = edLast.cmd.object

\* the step runs an AddObjectCommand: execute creates one mesh, redo and
\* undo create none and act on the mesh the command holds
AddStep ==
    /\ (/\ edLast'.op = "execute" /\ ~edLast'.threw
        /\ edLast'.cmd.type = "AddObjectCommand") =>
            /\ Len(edObjects') = Len(edObjects) + 1
            /\ Top(undos').object = Len(edObjects')
            /\ Listed(edScene', Len(edObjects')) = 1
            /\ edSelected' = Len(edObjects')
    /\ (/\ edLast'.op = "redo" /\ ~edLast'.threw
        /\ edLast'.cmd.type = "AddObjectCommand" /\ edLast'.cmd.object > 0) =>
            /\ Len(edObjects') = Len(edObjects)
            /\ Top(undos').object = edLast'.cmd.object
            /\ edObjects'[edLast'.cmd.object].id = edObjects[edLast'.cmd.object].id
            /\ Listed(edScene', edLast'.cmd.object) = 1
            /\ edSelected' = edLast'.cmd.object
    /\ (/\ edLast'.op = "undo" /\ ~edLast'.threw
        /\ edLast'.cmd.type = "AddObjectCommand" /\ edLast'.cmd.object > 0) =>
            /\ Len(edObjects') = Len(edObjects)
            /\ Top(redos').object = edLast'.cmd.object
            /\ edObjects'[edLast'.cmd.object].id = edObjects[edLast'.cmd.object].id
            /\ Listed(edScene', edLast'.cmd.object) = 0
            /\ edSelected' = 0

\* C24: over the executes, undos and redos of one AddObjectCommand one mesh
\* is created; after execute and redo this mesh is in the scene and is the
\* selection, after undo it is not in the scene and nothing is selected
AddCreatesOnce == [][AddStep]_vars

\* an AddObjectCommand was redone after its undo, next to another object
AddCreatesOnceWitness ==
    /\ edLast.op = "redo" /\ ~edLast.threw
    /\ edLast.cmd.type = "AddObjectCommand" /\ edLast.cmd.object > 0
    /\ Len(edObjects) > 1
    /\ edSelected = edLast.cmd.object
    /\ SeqContains(edScene, edLast.cmd.object)

\* a SetPropertyValueCommand the panel built for an object whose userData
\* agreed with its mesh was executed and is undone in the next step: every
\* mesh and its userData are as before execute
SetPropertyInverseStep ==
    (/\ edLast.op = "execute" /\ ~edLast.threw
     /\ edLast.cmd.type = "SetPropertyValueCommand"
     /\ LET m == edLast.pre[edLast.cmd.object]
        IN  /\ m.userData.position = m.position
            /\ m.userData.rotation = m.rotation
            /\ m.userData.scale = m.scale
     /\ edLast'.op = "undo" /\ ~edLast'.threw) =>
        edObjects' = edLast.pre

\* C25: for each property of the panel, executing the SetPropertyValueCommand
\* the change handler builds and undoing it restores the value of the
\* property and the mesh position, rotation, scale and material
SetPropertyInverse == [][SetPropertyInverseStep]_vars

\* the same for the properties whose old value the handler computes
SetPropertyInverseComputed ==
    [][edLast.cmd.type = "SetPropertyValueCommand" /\ edLast.cmd.oldValue # <<>>
       => SetPropertyInverseStep]_vars

\* the object the command acts on is in the scene; for a composite, the
\* object of every member; for a move, the siblings it names as well
TargetLive(scene, cmd) ==
    IF cmd.type = "MultiCmdsCommand"
    THEN \A i \in 1..Len(cmd.commands) :
            cmd.commands[i].object > 0 /\ SeqContains(scene, cmd.commands[i].object)
    ELSE /\ cmd.object > 0 /\ SeqContains(scene, cmd.object)
         /\ cmd.type = "MoveObjectCommand" =>
                /\ cmd.newBefore # 0 => SeqContains(scene, cmd.newBefore)
                /\ cmd.oldBefore # 0 => SeqContains(scene, cmd.oldBefore)

\* the history was written out and read back: a command of one of the kinds
\* whose target is live is rebuilt as it was
ReplayStep(kinds) ==
    edLast'.op = "reload" =>
        /\ \A i \in 1..Len(undos) :
              (undos[i].type \in kinds /\ TargetLive(edScene, undos[i])) =>
                  ~edLast'.threw /\ undos'[i] = undos[i]
        /\ \A i \in 1..Len(redos) :
              (redos[i].type \in kinds /\ TargetLive(edScene, redos[i])) =>
                  ~edLast'.threw /\ redos'[i] = redos[i]

CommandKinds == TransformTypes \cup {"AddObjectCommand", "RemoveObjectCommand",
                                     "MoveObjectCommand", "SetPropertyValueCommand",
                                     "MultiCmdsCommand"}

\* C26: for every command kind, the command rebuilt by fromJSON(C.toJSON())
\* on an editor where the target of C is live has the target and the
\* payload of C, and so the execute and undo of C
Replayable == [][ReplayStep(CommandKinds)]_vars

\* the same for the kinds that name their target in the JSON and are rebuilt
\* on their own, when the read-back as a whole does not throw
ReplayableByTarget ==
    [][~edLast'.threw =>
          ReplayStep(TransformTypes \cup {"RemoveObjectCommand", "MoveObjectCommand",
                                          "SetPropertyValueCommand"})]_vars

----------------------------------------------------------------------------
(* Object identity, type and the factory: properties *)

\* no two objects of the list share an id
UniqueIds(objs) ==
    \A i, j \in 1..Len(objs) : i # j => objs[i].id # objs[j].id

\* the step keeps ids unique; an object that stays keeps its id, a clone has
\* an id no object had, and an object undo or redo re-creates has the id its
\* snapshot entry records
IdStep ==
    /\ UniqueIds(objects')
    /\ lastOp'.op \notin {"import", "clearScene", "undo", "redo"} =>
          \A i \in 1..Len(objects), j \in 1..Len(objects') :
              objects[i].ref = objects'[j].ref => objects[i].id = objects'[j].id
    /\ (lastOp'.op \in {"duplicateObject", "duplicateSelectedObjects"}
        /\ ~lastOp'.threw) =>
          \A j \in (Len(objects) + 1)..Len(objects') :
              \A i \in 1..Len(objects) : objects'[j].id # objects[i].id
    /\ (lastOp'.op \in {"undo", "redo"} /\ lastOp'.loads = 1 /\ ~lastOp'.threw) =>
          /\ Len(objects') = Len(lastState'.objects)
          /\ \A i \in 1..Len(objects') : objects'[i].id = lastState'.objects[i].id

\* C27: ids are unique and stable: after any sequence of addObject,
\* duplicate, delete, undo and redo no two live objects share an id, a clone
\* gets a new id and a re-created object keeps the id of its snapshot entry
IdsUniqueAndStable == [][IdStep]_vars

\* redo has re-created two objects from a snapshot, each with the id it was
\* created with
IdsUniqueAndStableWitness ==
    /\ lastOp.op = "redo" /\ lastOp.loads = 1 /\ ~lastOp.threw
    /\ Len(objects) = 2
    /\ objects[1].id = generateId(1) /\ objects[2].id = generateId(2)
    /\ lastState.objects[2].id = generateId(2)

\* the (id, type) pairs of the live objects and of the entries of every
\* snapshot the serializer holds
TypePairs(objs, last, cmds) ==
    LET of(state) == IF state = Null THEN {}
                     ELSE {<<state.objects[i].id, state.objects[i].data.type>> :
                              i \in 1..Len(state.objects)}
    IN  {<<objs[i].id, objs[i].data.type>> : i \in 1..Len(objs)}
        \cup of(last)
        \cup UNION {of(cmds[k].prev) \cup of(cmds[k].curr) : k \in 1..Len(cmds)}

\* C28: data.type is immutable: an id has one type in every state in which
\* it is live and in every snapshot that can re-create it, across property
\* edits (the property 'type' included), clone, undo and redo
TypeImmutable ==
    [][\A p, q \in TypePairs(objects, lastState, commands)
                   \cup TypePairs(objects', lastState', commands') :
           p[1] = q[1] => p[2] = q[2]]_vars

\* the properties panel has reported a new 'type' for a selected box, which
\* still is a box
TypeImmutableWitness ==
    /\ lastOp.op = "property" /\ lastOp.arg = "type" /\ ~lastOp.threw
    /\ \E i \in 1..Len(objects) :
          /\ SeqContains(selectedObjects, objects[i].ref)
          /\ objects[i].data.type = "box"
          /\ objects[i].mesh.material = "obstacle"

\* the same for the meshes of the command editor over SetPropertyValue
\* commands, their undo and redo
TypeImmutableByCommands ==
    [][\A r \in 1..Len(edObjects) : edObjects'[r].userData.type = edObjects[r].userData.type]_vars

\* addObject ran create(type, position) with a key of the given set: no
\* error, and the new object has the box configuration and an id no live
\* object had
CreateStep(keys) ==
    (lastOp'.op = "addObject" /\ lastOp'.arg \in keys) =>
        /\ ~lastOp'.threw
        /\ Len(objects') = Len(objects) + 1
        /\ LET made == objects'[Len(objects')]
           IN  /\ made.mesh.material = OBJECT_TYPES.box.material
               /\ made.data.materialType = OBJECT_TYPES.box.material
               /\ made.data.size = <<2 * One, 2 * One, 2 * One>>
               /\ \A i \in 1..Len(objects) : objects[i].id # made.id

\* C29: create(typeKey, position) with a key absent from the registry
\* returns an object built from the box type (material 'obstacle', size
\* 2x2x2) without an error and with a fresh id
CreateUnknownType == [][CreateStep({"pyramid"} \cup InheritedKeys)]_vars

\* the same for an unknown key that Object.prototype does not answer
CreateUnknownOwnKey == [][CreateStep({"pyramid"})]_vars

\* every live object holds a data object and a material instance of its own
OwnCells(objs) ==
    \A i \in 1..Len(objs) : objs[i].heap.data = 0 /\ objs[i].heap.material = 0

\* clone applied to a live object as duplicateObject applies it: the clone
\* has an id no live object has, the rotation and scale of the source's
\* mesh, the new position in mesh and data, the material its materialType
\* names, and otherwise the data of the source
CloneOf(src, pos, id) ==
    LET copied(dup) ==
            /\ \A i \in 1..Len(objects) : objects[i].id # dup.id
            /\ dup.mesh.rotation = src.mesh.rotation
            /\ dup.mesh.scale = src.mesh.scale
            /\ dup.mesh.position = pos
            /\ MaterialsHas(src.data.materialType) =>
                  dup.mesh.material = src.data.materialType
            /\ dup.data = [src.data EXCEPT !.position = pos]
            /\ dup.heap = [data |-> 0, material |-> 0]
    IN  copied(clone(src, pos, id))

\* C30: clone(entity, newPosition) returns an object with another id, the
\* rotation and scale of the source, the new position and a deep copy of
\* the data; the clone and the source share neither data nor material, so
\* a later change of one never shows in the other
CloneIndependent ==
    /\ OwnCells(objects)
    /\ \A i \in 1..Len(objects) :
          CloneOf(objects[i], VAdd(objects[i].mesh.position, <<2 * One, 0, 2 * One>>),
                  generateId(nextId + 1))

\* an object was duplicated: the second object is the clone of the first
CloneIndependentWitness ==
    /\ lastOp.op = "duplicateObject" /\ ~lastOp.threw
    /\ Len(objects) = 2
    /\ objects[1].id # objects[2].id
    /\ objects[2].data.type = objects[1].data.type
    /\ objects[2].mesh.position = VAdd(objects[1].mesh.position, <<2 * One, 0, 2 * One>>)
    /\ objects[2].heap = [data |-> 0, material |-> 0]

----------------------------------------------------------------------------
(* SceneSerializer: lastState, the size of the history, unchanged snapshots *)

\* the handlers whose last statement is a saveState of the object list
SavingOps ==
    SingleSaveOps \cup {"duplicateObject", "duplicateSelectedObjects",
                        "deleteSelectedObjects"}

\* a saveState has just returned, or an undo or redo that ran a recorded
\* closure: lastState is the snapshot the live object list serializes to, and
\* an undo or redo returned that snapshot
LastStateStep ==
    /\ (lastOp'.op \in SavingOps /\ ~lastOp'.threw) => lastState' = LiveScene'
    /\ (lastOp'.op = "import" /\ lastOp'.ret = BoolRet(TRUE)) => lastState' = LiveScene'
    /\ (lastOp'.op = "undo" /\ lastOp'.hadUndo /\ ~lastOp'.threw) =>
          /\ lastState' = LiveScene'
          /\ lastOp'.ret = LiveScene'
    /\ (lastOp'.op = "redo" /\ lastOp'.hadRedo /\ ~lastOp'.threw) =>
          /\ lastState' = LiveScene'
          /\ lastOp'.ret = LiveScene'

\* C31: immediately after saveState, undo or redo returns, lastState equals
\* the snapshot of the live object list (ids, order, data, transforms), and
\* undo() and redo() return the snapshot that is now loaded in the scene
LastStateIsLive == [][LastStateStep]_vars

\* an undo has loaded a snapshot that holds an object and returned it
LastStateIsLiveWitness ==
    /\ lastOp.op = "undo" /\ lastOp.hadUndo /\ ~lastOp.threw /\ lastOp.loads = 1
    /\ Len(objects) > 0
    /\ lastOp.ret = LiveScene /\ lastState = LiveScene

\* an undo or redo leaves the recorded entries as they are and moves only the
\* position between the undoable and the redoable ones
HistorySizeStep ==
    lastOp'.op \in {"undo", "redo"} =>
        /\ commands' = commands
        /\ index' \in 0..Len(commands)
        /\ index' + (Len(commands') - index') = index + (Len(commands) - index)

\* C32: undo() and redo() never change the total number of history entries
\* (undoable plus redoable), and in every reachable state that total is at
\* most the capacity given to the SceneSerializer
HistorySizeStable ==
    /\ [][HistorySizeStep]_vars
    /\ [](index + (Len(commands) - index) <= maxHistorySize)

\* an undo has run on a full history: one entry is redoable, the others are
\* undoable, and the history is still full
HistorySizeStableWitness ==
    /\ lastOp.op = "undo" /\ lastOp.hadUndo /\ lastOp.loads = 1
    /\ Len(commands) = maxHistorySize /\ index = maxHistorySize - 1

\* the entry a saveState records holds two different snapshots, and an undo
\* that runs an entry changes what the live object list serializes to
ChangedSnapshotStep ==
    /\ (lastOp'.added = 1 /\ ~lastOp'.threw) =>
          commands'[index'].prev # commands'[index'].curr
    /\ (lastOp'.op = "undo" /\ lastOp'.hadUndo /\ ~lastOp'.threw /\ lastState = LiveScene) =>
          LiveScene' # LiveScene

----------------------------------------------------------------------------
(* SelectionManager: the selection and the object list *)

\* the selection lists no object twice and only objects of the object list
SelectionOfLive(objs, sel) ==
    /\ \A i, j \in 1..Len(sel) : sel[i] = sel[j] => i = j
    /\ \A i \in 1..Len(sel) : IndexOfRef(objs, sel[i]) # 0

\* deleteObject takes the deleted objects out of the selection and leaves
\* the others selected, in their order; loadScene (import, undo, redo) and
\* clearScene leave nothing selected
SelectionStep ==
    /\ (lastOp'.op \in {"deleteObject", "deleteSelectedObjects"} /\ ~lastOp'.threw) =>
          /\ \A i \in 1..Len(objects) :
                IndexOfRef(objects', objects[i].ref) = 0 =>
                    ~SeqContains(selectedObjects', objects[i].ref)
          /\ \A i \in 1..Len(selectedObjects) :
                IndexOfRef(objects', selectedObjects[i]) # 0 =>
                    SeqContains(selectedObjects', selectedObjects[i])
          /\ Len(objects') < Len(objects)
    /\ (lastOp'.op = "clearScene") => selectedObjects' = <<>>
    /\ (lastOp'.op = "import" /\ lastOp'.ret # BoolRet(FALSE)) => selectedObjects' = <<>>
    /\ (lastOp'.op \in {"undo", "redo"} /\ lastOp'.loads = 1) => selectedObjects' = <<>>

\* C34: in every reachable state the selection contains no duplicates and
\* only live objects; deleteObject removes the object from the selection;
\* loadScene and clearScene leave the selection empty
SelectionSound ==
    /\ [](SelectionOfLive(objects, selectedObjects))
    /\ [][SelectionStep]_vars

\* one of two selected objects was deleted and the other is still selected
SelectionSoundWitness ==
    /\ lastOp.op = "deleteObject" /\ ~lastOp.threw
    /\ Cardinality(lastOp.preSel) = 2
    /\ Len(objects) = 1 /\ selectedObjects = <<objects[1].ref>>

----------------------------------------------------------------------------
(* The tool and deselect call chain: properties *)

\* C35: every user operation runs to completion: the mutual calls among
\* setTool, deselectAllObjects, SelectionManager.deselectAll and the
\* objectDeselected / toolChanged listeners return after finitely many
\* steps from any tool and selection, the stack stays below its bound, and
\* a deselect-all ends with the tool 'select' and nothing selected
ToolChainCompletes ==
    /\ [](Len(ctStack) < MaxDepth)
    /\ []((ctStack = <<>> /\ ctOp = "deselectAllObjects") =>
             (ctTool = "select" /\ ctCount = 0))
    /\ (ctStack # <<>>) ~> (ctStack = <<>>)

\* a deselect-all has returned after its 'objectDeselected' listener had
\* called setTool from a transform tool
ToolChainCompletesWitness ==
    /\ ctStack = <<>> /\ ctOp = "deselectAllObjects"
    /\ ctCalls >= 6 /\ ctTool = "select"

----------------------------------------------------------------------------
(* EditorEvents and AssetRegistry: properties *)

\* the step ran an emit: directly, or inside register or unregister
Emitted == busLast'.op \in {"emit", "execute", "undo"} /\ busLast'.event # ""

\* C36: emit(event, data) invokes every callback that was subscribed when
\* the emit started exactly once, in subscription order, also when a
\* callback unsubscribes itself or another callback during that emit
EmitInvokesAll == [][Emitted => busLast'.invoked = busLast'.start]_vars

\* how often the callback occurs in the sequence
Occurrences(seq, callback) == Cardinality({i \in 1..Len(seq) : seq[i] = callback})

\* what emit does guarantee: it invokes only callbacks that were subscribed
\* when it started, none more often than it was subscribed, in their
\* order when no callback unsubscribes anything; and off takes one
\* subscription of the callback out of the list
EmitInvokesSubscribed ==
    [][/\ Emitted =>
            /\ \A c \in Callbacks :
                  Occurrences(busLast'.invoked, c) <= Occurrences(busLast'.start, c)
            /\ (\A i \in 1..Len(busLast'.start) : busLast'.start[i] = "log") =>
                  busLast'.invoked = busLast'.start
       /\ busLast'.op = "off" =>
            \A c \in Callbacks :
                Occurrences(listeners'[busLast'.event], c) =
                    IF c = busLast'.invoked[1] /\ Occurrences(busLast'.start, c) > 0
                    THEN Occurrences(busLast'.start, c) - 1
                    ELSE Occurrences(busLast'.start, c)]_vars

\* C37: AddAssetCommand execute() followed by undo() leaves the asset
\* registry exactly as it was before, also when an asset with the same id
\* was registered already
AddAssetInverse ==
    [][(busLast.op = "execute" /\ busLast'.op = "undo") => assets' = busLast.pre]_vars

\* the same for an id that was not registered before the execute
AddAssetInverseFresh ==
    [][(/\ busLast.op = "execute" /\ busLast'.op = "undo"
        /\ ~AssetsHas(busLast.pre, assetCmds[Len(assetCmds)].assetId))
       => assets' = busLast.pre]_vars

----------------------------------------------------------------------------
(* MultiCmdsCommand written out and read back: properties *)

\* the composites the history holds
Composites ==
    {undos[i] : i \in {j \in 1..Len(undos) : undos[j].type = "MultiCmdsCommand"}}
        \cup {redos[i] : i \in {j \in 1..Len(redos) : redos[j].type = "MultiCmdsCommand"}}

\* fromJSON(c.toJSON()) on a new MultiCmdsCommand completes and rebuilds as
\* many members, each of the kind of the member in its place
ReadsBack(e, c) ==
    /\ ~MultiCmdsFromJSONThrows(MultiCmdsToJSON(e, c))
    /\ LET same(built) ==
              /\ Len(built.commands) = Len(c.commands)
              /\ \A i \in 1..Len(c.commands) : built.commands[i].type = c.commands[i].type
       IN  same(MultiCmdsFromJSON(e, MultiCmdsCommand(e, <<>>), MultiCmdsToJSON(e, c)))

\* C38: for a composite whose members are all of known kinds and whose
\* toJSON completes, fromJSON(c.toJSON()) completes without error and
\* rebuilds the members in the order of json.commands, each of the kind its
\* type names
CompositeReadsBack ==
    \A c \in Composites : ~toJSONThrows(c) => ReadsBack(EdCurrent, c)

\* the same for a composite of an AddObjectCommand and a RemoveObjectCommand
\* of a live object, kinds whose constructors take the editor alone
CompositeReadsBackByEditor ==
    \A i \in 1..Len(edScene) :
        ReadsBack(EdCurrent,
                  MultiCmdsCommand(EdCurrent,
                      <<AddObjectCommand(EdCurrent, "box", <<ZeroVec>>),
                        RemoveObjectCommand(EdCurrent, edScene[i])>>))

----------------------------------------------------------------------------
(* GridManager.updateSize: properties *)

\* x and z of the position lie within the half-extent n of the grid
InsideGrid(p, n) ==
    /\ 0 - n * One <= p[1] /\ p[1] <= n * One
    /\ 0 - n * One <= p[3] /\ p[3] <= n * One

\* what updateSize(n, objects) made of the object before: the mesh position
\* lies inside the grid and keeps its y; an object that was inside is as
\* it was; a clamped object has x and z of its mesh in its data, and
\* nothing else of it changed
Clamped(before, after, n) ==
    /\ InsideGrid(after.mesh.position, n)
    /\ after.mesh.position[2] = before.mesh.position[2]
    /\ InsideGrid(before.mesh.position, n) => after = before
    /\ after # before =>
          /\ after.data.position[1] = after.mesh.position[1]
          /\ after.data.position[3] = after.mesh.position[3]
          /\ after.data.position[2] = before.data.position[2]
          /\ after = [before EXCEPT !.mesh.position = after.mesh.position,
                                    !.data.position = after.data.position]

GridSizeStep ==
    (lastOp'.op = "gridSize" /\ ~lastOp'.threw) =>
        /\ Len(objects') = Len(objects)
        /\ \A i \in 1..Len(objects) : Clamped(objects[i], objects'[i], grid'.gridSize)

UpdateSizeClampsWorld ==
    [][(lastOp'.op = "gridSize" /\ ~lastOp'.threw) =>
          \A i \in 1..Len(objects') :
              InsideGrid(WorldPosition(objects'[i].mesh, selectionGroup'), grid'.gridSize)]_vars

====
